---- MODULE Spec2Model ----
(***************************************************************************)
(* Model of src/app.py, the Streamlit "Automated Application Tracker".     *)
(* One script run (main()) is one request: it optionally calls the Gemini  *)
(* text-extraction service, then creates or updates a row of the           *)
(* "Applications" worksheet and renders the dashboard.                     *)
(*                                                                         *)
(* Streamlit runs the script of every browser session in a thread of its   *)
(* own and every worksheet call is a blocking HTTP round trip, so a run is *)
(* a sequence of steps, one per worksheet call, and the steps of the runs  *)
(* of different sessions interleave.                                       *)
(*                                                                         *)
(* Text is a sequence of characters, so that strip(), upper(), casefold()  *)
(* and split() are computed character by character.  A character is a      *)
(* one-character string; a character that cannot stand in a string of this *)
(* module is written by its code point, as in "U+2003".                    *)
(***************************************************************************)
EXTENDS Integers, Sequences, FiniteSets, TLC

\* ------------------------------------------------------------------ bounds

\* Number of requests (script runs) a behaviour holds.  Each may belong to a
\* session of its own, so this is also the number of runs that can overlap.
MaxRequests == 2

\* ------------------------------------------------------------ Python text

\* The characters str.isspace() holds of: those str.strip() removes.
Whitespace ==
  {"\t", "\n", "", "\f", "\r", "", "", "", "", " ", "", " ", " ",
    "U+2000", "U+2001", "U+2002", "U+2003", "U+2004", "U+2005", "U+2006",
    "U+2007", "U+2008", "U+2009", "U+200A", "U+2028", "U+2029", "U+202F",
    "U+205F", "U+3000"}

\* str.upper(): the characters it turns into one other character ...
UpperFrom ==
  <<"a", "b", "c", "d", "e", "f", "g", "h", "i", "j", "k", "l", "m", "n", "o",
    "p", "q", "r", "s", "t", "u", "v", "w", "x", "y", "z", "µ", "à", "á", "â",
    "ã", "ä", "å", "æ", "ç", "è", "é", "ê", "ë", "ì", "í", "î", "ï", "ð", "ñ",
    "ò", "ó", "ô", "õ", "ö", "ø", "ù", "ú", "û", "ü", "ý", "þ", "ÿ", "U+0101",
    "U+0103", "U+0105", "U+0107", "U+0109", "U+010B", "U+010D", "U+010F",
    "U+0111", "U+0113", "U+0115", "U+0117", "U+0119", "U+011B", "U+011D",
    "U+011F", "U+0121", "U+0123", "U+0125", "U+0127", "U+0129", "U+012B",
    "U+012D", "U+012F", "U+0131", "U+0133", "U+0135", "U+0137", "U+013A",
    "U+013C", "U+013E", "U+0140", "U+0142", "U+0144", "U+0146", "U+0148",
    "U+014B", "U+014D", "U+014F", "U+0151", "U+0153", "U+0155", "U+0157",
    "U+0159", "U+015B", "U+015D", "U+015F", "U+0161", "U+0163", "U+0165",
    "U+0167", "U+0169", "U+016B", "U+016D", "U+016F", "U+0171", "U+0173",
    "U+0175", "U+0177", "U+017A", "U+017C", "U+017E", "U+017F", "ƀ", "ƃ", "ƅ",
    "ƈ", "ƌ", "ƒ", "ƕ", "ƙ", "ƚ", "ƞ", "ơ", "ƣ", "ƥ", "ƨ", "ƭ", "ư", "ƴ", "ƶ",
    "ƹ", "ƽ", "ƿ", "ǅ", "ǆ", "ǈ", "ǉ", "ǋ", "ǌ", "ǎ", "ǐ", "ǒ", "ǔ", "ǖ", "ǘ",
    "ǚ", "ǜ", "ǝ", "ǟ", "ǡ", "ǣ", "ǥ", "ǧ", "ǩ", "ǫ", "ǭ", "ǯ", "ǲ", "ǳ", "ǵ",
    "ǹ", "ǻ", "ǽ", "ǿ", "U+0201", "U+0203", "U+0205", "U+0207", "U+0209",
    "U+020B", "U+020D", "U+020F", "U+0211", "U+0213", "U+0215", "U+0217",
    "U+0219", "U+021B", "U+021D", "U+021F", "U+0223", "U+0225", "U+0227",
    "U+0229", "U+022B", "U+022D", "U+022F", "U+0231", "U+0233", "U+023C",
    "U+023F", "U+0240", "U+0242", "U+0247", "U+0249", "U+024B", "U+024D",
    "U+024F", "U+0250", "U+0251", "U+0252", "U+0253", "U+0254", "U+0256",
    "U+0257", "U+0259", "U+025B", "U+025C", "U+0260", "U+0261", "U+0263",
    "U+0265", "U+0266", "U+0268", "U+0269", "U+026A", "U+026B", "U+026C",
    "U+026F", "U+0271", "U+0272", "U+0275", "U+027D", "ʀ", "ʂ", "ʃ", "ʇ", "ʈ",
    "ʉ", "ʊ", "ʋ", "ʌ", "ʒ", "ʝ", "ʞ", "U+0345", "U+0371", "U+0373", "U+0377",
    "U+037B", "U+037C", "U+037D", "ά", "έ", "ή", "ί", "α", "β", "γ", "δ", "ε",
    "ζ", "η", "θ", "ι", "κ", "λ", "μ", "ν", "ξ", "ο", "π", "ρ", "ς", "σ", "τ",
    "υ", "φ", "χ", "ψ", "ω", "ϊ", "ϋ", "ό", "ύ", "ώ", "ϐ", "ϑ", "ϕ", "ϖ", "ϗ",
    "ϙ", "ϛ", "ϝ", "ϟ", "ϡ", "ϣ", "ϥ", "ϧ", "ϩ", "ϫ", "ϭ", "ϯ", "ϰ", "ϱ", "ϲ",
    "ϳ", "ϵ", "ϸ", "ϻ", "U+0430", "U+0431", "U+0432", "U+0433", "U+0434",
    "U+0435", "U+0436", "U+0437", "U+0438", "U+0439", "U+043A", "U+043B",
    "U+043C", "U+043D", "U+043E", "U+043F", "U+0440", "U+0441", "U+0442",
    "U+0443", "U+0444", "U+0445", "U+0446", "U+0447", "U+0448", "U+0449",
    "U+044A", "U+044B", "U+044C", "U+044D", "U+044E", "U+044F", "U+0450",
    "U+0451", "U+0452", "U+0453", "U+0454", "U+0455", "U+0456", "U+0457",
    "U+0458", "U+0459", "U+045A", "U+045B", "U+045C", "U+045D", "U+045E",
    "U+045F", "U+0461", "U+0463", "U+0465", "U+0467", "U+0469", "U+046B",
    "U+046D", "U+046F", "U+0471", "U+0473", "U+0475", "U+0477", "U+0479",
    "U+047B", "U+047D", "U+047F", "ҁ", "ҋ", "ҍ", "ҏ", "ґ", "ғ", "ҕ", "җ", "ҙ",
    "қ", "ҝ", "ҟ", "ҡ", "ң", "ҥ", "ҧ", "ҩ", "ҫ", "ҭ", "ү", "ұ", "ҳ", "ҵ", "ҷ",
    "ҹ", "һ", "ҽ", "ҿ", "ӂ", "ӄ", "ӆ", "ӈ", "ӊ", "ӌ", "ӎ", "ӏ", "ӑ", "ӓ", "ӕ",
    "ӗ", "ә", "ӛ", "ӝ", "ӟ", "ӡ", "ӣ", "ӥ", "ӧ", "ө", "ӫ", "ӭ", "ӯ", "ӱ", "ӳ",
    "ӵ", "ӷ", "ӹ", "ӻ", "ӽ", "ӿ", "U+0501", "U+0503", "U+0505", "U+0507",
    "U+0509", "U+050B", "U+050D", "U+050F", "U+0511", "U+0513", "U+0515",
    "U+0517", "U+0519", "U+051B", "U+051D", "U+051F", "U+0521", "U+0523",
    "U+0525", "U+0527", "U+0529", "U+052B", "U+052D", "U+052F", "U+0561",
    "U+0562", "U+0563", "U+0564", "U+0565", "U+0566", "U+0567", "U+0568",
    "U+0569", "U+056A", "U+056B", "U+056C", "U+056D", "U+056E", "U+056F",
    "U+0570", "U+0571", "U+0572", "U+0573", "U+0574", "U+0575", "U+0576",
    "U+0577", "U+0578", "U+0579", "U+057A", "U+057B", "U+057C", "U+057D",
    "U+057E", "U+057F", "ր", "ց", "ւ", "փ", "ք", "օ", "ֆ", "ა", "ბ", "გ", "დ",
    "ე", "ვ", "ზ", "თ", "ი", "კ", "ლ", "მ", "ნ", "ო", "პ", "ჟ", "რ", "ს", "ტ",
    "უ", "ფ", "ქ", "ღ", "ყ", "შ", "ჩ", "ც", "ძ", "წ", "ჭ", "ხ", "ჯ", "ჰ", "ჱ",
    "ჲ", "ჳ", "ჴ", "ჵ", "ჶ", "ჷ", "ჸ", "ჹ", "ჺ", "ჽ", "ჾ", "ჿ", "ᏸ", "ᏹ", "ᏺ",
    "ᏻ", "ᏼ", "ᏽ", "ᲀ", "ᲁ", "ᲂ", "ᲃ", "ᲄ", "ᲅ", "ᲆ", "ᲇ", "ᲈ", "U+1D79",
    "U+1D7D", "ᶎ", "U+1E01", "U+1E03", "U+1E05", "U+1E07", "U+1E09", "U+1E0B",
    "U+1E0D", "U+1E0F", "U+1E11", "U+1E13", "U+1E15", "U+1E17", "U+1E19",
    "U+1E1B", "U+1E1D", "U+1E1F", "U+1E21", "U+1E23", "U+1E25", "U+1E27",
    "U+1E29", "U+1E2B", "U+1E2D", "U+1E2F", "U+1E31", "U+1E33", "U+1E35",
    "U+1E37", "U+1E39", "U+1E3B", "U+1E3D", "U+1E3F", "U+1E41", "U+1E43",
    "U+1E45", "U+1E47", "U+1E49", "U+1E4B", "U+1E4D", "U+1E4F", "U+1E51",
    "U+1E53", "U+1E55", "U+1E57", "U+1E59", "U+1E5B", "U+1E5D", "U+1E5F",
    "U+1E61", "U+1E63", "U+1E65", "U+1E67", "U+1E69", "U+1E6B", "U+1E6D",
    "U+1E6F", "U+1E71", "U+1E73", "U+1E75", "U+1E77", "U+1E79", "U+1E7B",
    "U+1E7D", "U+1E7F", "ẁ", "ẃ", "ẅ", "ẇ", "ẉ", "ẋ", "ẍ", "ẏ", "ẑ", "ẓ", "ẕ",
    "ẛ", "ạ", "ả", "ấ", "ầ", "ẩ", "ẫ", "ậ", "ắ", "ằ", "ẳ", "ẵ", "ặ", "ẹ", "ẻ",
    "ẽ", "ế", "ề", "ể", "ễ", "ệ", "ỉ", "ị", "ọ", "ỏ", "ố", "ồ", "ổ", "ỗ", "ộ",
    "ớ", "ờ", "ở", "ỡ", "ợ", "ụ", "ủ", "ứ", "ừ", "ử", "ữ", "ự", "ỳ", "ỵ", "ỷ",
    "ỹ", "ỻ", "ỽ", "ỿ", "U+1F00", "U+1F01", "U+1F02", "U+1F03", "U+1F04",
    "U+1F05", "U+1F06", "U+1F07", "U+1F10", "U+1F11", "U+1F12", "U+1F13",
    "U+1F14", "U+1F15", "U+1F20", "U+1F21", "U+1F22", "U+1F23", "U+1F24",
    "U+1F25", "U+1F26", "U+1F27", "U+1F30", "U+1F31", "U+1F32", "U+1F33",
    "U+1F34", "U+1F35", "U+1F36", "U+1F37", "U+1F40", "U+1F41", "U+1F42",
    "U+1F43", "U+1F44", "U+1F45", "U+1F51", "U+1F53", "U+1F55", "U+1F57",
    "U+1F60", "U+1F61", "U+1F62", "U+1F63", "U+1F64", "U+1F65", "U+1F66",
    "U+1F67", "U+1F70", "U+1F71", "U+1F72", "U+1F73", "U+1F74", "U+1F75",
    "U+1F76", "U+1F77", "U+1F78", "U+1F79", "U+1F7A", "U+1F7B", "U+1F7C",
    "U+1F7D", "ᾰ", "ᾱ", "ι", "ῐ", "ῑ", "ῠ", "ῡ", "ῥ", "U+214E", "U+2170",
    "U+2171", "U+2172", "U+2173", "U+2174", "U+2175", "U+2176", "U+2177",
    "U+2178", "U+2179", "U+217A", "U+217B", "U+217C", "U+217D", "U+217E",
    "U+217F", "ↄ", "ⓐ", "ⓑ", "ⓒ", "ⓓ", "ⓔ", "ⓕ", "ⓖ", "ⓗ", "ⓘ", "ⓙ", "ⓚ", "ⓛ",
    "ⓜ", "ⓝ", "ⓞ", "ⓟ", "ⓠ", "ⓡ", "ⓢ", "ⓣ", "ⓤ", "ⓥ", "ⓦ", "ⓧ", "ⓨ", "ⓩ",
    "U+2C30", "U+2C31", "U+2C32", "U+2C33", "U+2C34", "U+2C35", "U+2C36",
    "U+2C37", "U+2C38", "U+2C39", "U+2C3A", "U+2C3B", "U+2C3C", "U+2C3D",
    "U+2C3E", "U+2C3F", "U+2C40", "U+2C41", "U+2C42", "U+2C43", "U+2C44",
    "U+2C45", "U+2C46", "U+2C47", "U+2C48", "U+2C49", "U+2C4A", "U+2C4B",
    "U+2C4C", "U+2C4D", "U+2C4E", "U+2C4F", "U+2C50", "U+2C51", "U+2C52",
    "U+2C53", "U+2C54", "U+2C55", "U+2C56", "U+2C57", "U+2C58", "U+2C59",
    "U+2C5A", "U+2C5B", "U+2C5C", "U+2C5D", "U+2C5E", "U+2C5F", "U+2C61",
    "U+2C65", "U+2C66", "U+2C68", "U+2C6A", "U+2C6C", "U+2C73", "U+2C76", "ⲁ",
    "ⲃ", "ⲅ", "ⲇ", "ⲉ", "ⲋ", "ⲍ", "ⲏ", "ⲑ", "ⲓ", "ⲕ", "ⲗ", "ⲙ", "ⲛ", "ⲝ", "ⲟ",
    "ⲡ", "ⲣ", "ⲥ", "ⲧ", "ⲩ", "ⲫ", "ⲭ", "ⲯ", "ⲱ", "ⲳ", "ⲵ", "ⲷ", "ⲹ", "ⲻ", "ⲽ",
    "ⲿ", "ⳁ", "ⳃ", "ⳅ", "ⳇ", "ⳉ", "ⳋ", "ⳍ", "ⳏ", "ⳑ", "ⳓ", "ⳕ", "ⳗ", "ⳙ", "ⳛ",
    "ⳝ", "ⳟ", "ⳡ", "ⳣ", "ⳬ", "ⳮ", "ⳳ", "U+2D00", "U+2D01", "U+2D02", "U+2D03",
    "U+2D04", "U+2D05", "U+2D06", "U+2D07", "U+2D08", "U+2D09", "U+2D0A",
    "U+2D0B", "U+2D0C", "U+2D0D", "U+2D0E", "U+2D0F", "U+2D10", "U+2D11",
    "U+2D12", "U+2D13", "U+2D14", "U+2D15", "U+2D16", "U+2D17", "U+2D18",
    "U+2D19", "U+2D1A", "U+2D1B", "U+2D1C", "U+2D1D", "U+2D1E", "U+2D1F",
    "U+2D20", "U+2D21", "U+2D22", "U+2D23", "U+2D24", "U+2D25", "U+2D27",
    "U+2D2D", "U+A641", "U+A643", "U+A645", "U+A647", "U+A649", "U+A64B",
    "U+A64D", "U+A64F", "U+A651", "U+A653", "U+A655", "U+A657", "U+A659",
    "U+A65B", "U+A65D", "U+A65F", "U+A661", "U+A663", "U+A665", "U+A667",
    "U+A669", "U+A66B", "U+A66D", "ꚁ", "ꚃ", "ꚅ", "ꚇ", "ꚉ", "ꚋ", "ꚍ", "ꚏ", "ꚑ",
    "ꚓ", "ꚕ", "ꚗ", "ꚙ", "ꚛ", "U+A723", "U+A725", "U+A727", "U+A729", "U+A72B",
    "U+A72D", "U+A72F", "U+A733", "U+A735", "U+A737", "U+A739", "U+A73B",
    "U+A73D", "U+A73F", "U+A741", "U+A743", "U+A745", "U+A747", "U+A749",
    "U+A74B", "U+A74D", "U+A74F", "U+A751", "U+A753", "U+A755", "U+A757",
    "U+A759", "U+A75B", "U+A75D", "U+A75F", "U+A761", "U+A763", "U+A765",
    "U+A767", "U+A769", "U+A76B", "U+A76D", "U+A76F", "U+A77A", "U+A77C",
    "U+A77F", "ꞁ", "ꞃ", "ꞅ", "ꞇ", "ꞌ", "ꞑ", "ꞓ", "ꞔ", "ꞗ", "ꞙ", "ꞛ", "ꞝ", "ꞟ",
    "ꞡ", "ꞣ", "ꞥ", "ꞧ", "ꞩ", "ꞵ", "ꞷ", "ꞹ", "ꞻ", "ꞽ", "ꞿ", "ꟁ", "ꟃ", "ꟈ", "ꟊ",
    "ꟑ", "ꟗ", "ꟙ", "ꟶ", "U+AB53", "U+AB70", "U+AB71", "U+AB72", "U+AB73",
    "U+AB74", "U+AB75", "U+AB76", "U+AB77", "U+AB78", "U+AB79", "U+AB7A",
    "U+AB7B", "U+AB7C", "U+AB7D", "U+AB7E", "U+AB7F", "ꮀ", "ꮁ", "ꮂ", "ꮃ", "ꮄ",
    "ꮅ", "ꮆ", "ꮇ", "ꮈ", "ꮉ", "ꮊ", "ꮋ", "ꮌ", "ꮍ", "ꮎ", "ꮏ", "ꮐ", "ꮑ", "ꮒ", "ꮓ",
    "ꮔ", "ꮕ", "ꮖ", "ꮗ", "ꮘ", "ꮙ", "ꮚ", "ꮛ", "ꮜ", "ꮝ", "ꮞ", "ꮟ", "ꮠ", "ꮡ", "ꮢ",
    "ꮣ", "ꮤ", "ꮥ", "ꮦ", "ꮧ", "ꮨ", "ꮩ", "ꮪ", "ꮫ", "ꮬ", "ꮭ", "ꮮ", "ꮯ", "ꮰ", "ꮱ",
    "ꮲ", "ꮳ", "ꮴ", "ꮵ", "ꮶ", "ꮷ", "ꮸ", "ꮹ", "ꮺ", "ꮻ", "ꮼ", "ꮽ", "ꮾ", "ꮿ",
    "U+FF41", "U+FF42", "U+FF43", "U+FF44", "U+FF45", "U+FF46", "U+FF47",
    "U+FF48", "U+FF49", "U+FF4A", "U+FF4B", "U+FF4C", "U+FF4D", "U+FF4E",
    "U+FF4F", "U+FF50", "U+FF51", "U+FF52", "U+FF53", "U+FF54", "U+FF55",
    "U+FF56", "U+FF57", "U+FF58", "U+FF59", "U+FF5A", "U+10428", "U+10429",
    "U+1042A", "U+1042B", "U+1042C", "U+1042D", "U+1042E", "U+1042F",
    "U+10430", "U+10431", "U+10432", "U+10433", "U+10434", "U+10435",
    "U+10436", "U+10437", "U+10438", "U+10439", "U+1043A", "U+1043B",
    "U+1043C", "U+1043D", "U+1043E", "U+1043F", "U+10440", "U+10441",
    "U+10442", "U+10443", "U+10444", "U+10445", "U+10446", "U+10447",
    "U+10448", "U+10449", "U+1044A", "U+1044B", "U+1044C", "U+1044D",
    "U+1044E", "U+1044F", "U+104D8", "U+104D9", "U+104DA", "U+104DB",
    "U+104DC", "U+104DD", "U+104DE", "U+104DF", "U+104E0", "U+104E1",
    "U+104E2", "U+104E3", "U+104E4", "U+104E5", "U+104E6", "U+104E7",
    "U+104E8", "U+104E9", "U+104EA", "U+104EB", "U+104EC", "U+104ED",
    "U+104EE", "U+104EF", "U+104F0", "U+104F1", "U+104F2", "U+104F3",
    "U+104F4", "U+104F5", "U+104F6", "U+104F7", "U+104F8", "U+104F9",
    "U+104FA", "U+104FB", "U+10597", "U+10598", "U+10599", "U+1059A",
    "U+1059B", "U+1059C", "U+1059D", "U+1059E", "U+1059F", "U+105A0",
    "U+105A1", "U+105A3", "U+105A4", "U+105A5", "U+105A6", "U+105A7",
    "U+105A8", "U+105A9", "U+105AA", "U+105AB", "U+105AC", "U+105AD",
    "U+105AE", "U+105AF", "U+105B0", "U+105B1", "U+105B3", "U+105B4",
    "U+105B5", "U+105B6", "U+105B7", "U+105B8", "U+105B9", "U+105BB",
    "U+105BC", "U+10CC0", "U+10CC1", "U+10CC2", "U+10CC3", "U+10CC4",
    "U+10CC5", "U+10CC6", "U+10CC7", "U+10CC8", "U+10CC9", "U+10CCA",
    "U+10CCB", "U+10CCC", "U+10CCD", "U+10CCE", "U+10CCF", "U+10CD0",
    "U+10CD1", "U+10CD2", "U+10CD3", "U+10CD4", "U+10CD5", "U+10CD6",
    "U+10CD7", "U+10CD8", "U+10CD9", "U+10CDA", "U+10CDB", "U+10CDC",
    "U+10CDD", "U+10CDE", "U+10CDF", "U+10CE0", "U+10CE1", "U+10CE2",
    "U+10CE3", "U+10CE4", "U+10CE5", "U+10CE6", "U+10CE7", "U+10CE8",
    "U+10CE9", "U+10CEA", "U+10CEB", "U+10CEC", "U+10CED", "U+10CEE",
    "U+10CEF", "U+10CF0", "U+10CF1", "U+10CF2", "U+118C0", "U+118C1",
    "U+118C2", "U+118C3", "U+118C4", "U+118C5", "U+118C6", "U+118C7",
    "U+118C8", "U+118C9", "U+118CA", "U+118CB", "U+118CC", "U+118CD",
    "U+118CE", "U+118CF", "U+118D0", "U+118D1", "U+118D2", "U+118D3",
    "U+118D4", "U+118D5", "U+118D6", "U+118D7", "U+118D8", "U+118D9",
    "U+118DA", "U+118DB", "U+118DC", "U+118DD", "U+118DE", "U+118DF",
    "U+16E60", "U+16E61", "U+16E62", "U+16E63", "U+16E64", "U+16E65",
    "U+16E66", "U+16E67", "U+16E68", "U+16E69", "U+16E6A", "U+16E6B",
    "U+16E6C", "U+16E6D", "U+16E6E", "U+16E6F", "U+16E70", "U+16E71",
    "U+16E72", "U+16E73", "U+16E74", "U+16E75", "U+16E76", "U+16E77",
    "U+16E78", "U+16E79", "U+16E7A", "U+16E7B", "U+16E7C", "U+16E7D",
    "U+16E7E", "U+16E7F", "U+1E922", "U+1E923", "U+1E924", "U+1E925",
    "U+1E926", "U+1E927", "U+1E928", "U+1E929", "U+1E92A", "U+1E92B",
    "U+1E92C", "U+1E92D", "U+1E92E", "U+1E92F", "U+1E930", "U+1E931",
    "U+1E932", "U+1E933", "U+1E934", "U+1E935", "U+1E936", "U+1E937",
    "U+1E938", "U+1E939", "U+1E93A", "U+1E93B", "U+1E93C", "U+1E93D",
    "U+1E93E", "U+1E93F", "U+1E940", "U+1E941", "U+1E942", "U+1E943">>

\* ... and the character each one is turned into.
UpperTo ==
  <<"A", "B", "C", "D", "E", "F", "G", "H", "I", "J", "K", "L", "M", "N", "O",
    "P", "Q", "R", "S", "T", "U", "V", "W", "X", "Y", "Z", "Μ", "À", "Á", "Â",
    "Ã", "Ä", "Å", "Æ", "Ç", "È", "É", "Ê", "Ë", "Ì", "Í", "Î", "Ï", "Ð", "Ñ",
    "Ò", "Ó", "Ô", "Õ", "Ö", "Ø", "Ù", "Ú", "Û", "Ü", "Ý", "Þ", "U+0178",
    "U+0100", "U+0102", "U+0104", "U+0106", "U+0108", "U+010A", "U+010C",
    "U+010E", "U+0110", "U+0112", "U+0114", "U+0116", "U+0118", "U+011A",
    "U+011C", "U+011E", "U+0120", "U+0122", "U+0124", "U+0126", "U+0128",
    "U+012A", "U+012C", "U+012E", "I", "U+0132", "U+0134", "U+0136", "U+0139",
    "U+013B", "U+013D", "U+013F", "U+0141", "U+0143", "U+0145", "U+0147",
    "U+014A", "U+014C", "U+014E", "U+0150", "U+0152", "U+0154", "U+0156",
    "U+0158", "U+015A", "U+015C", "U+015E", "U+0160", "U+0162", "U+0164",
    "U+0166", "U+0168", "U+016A", "U+016C", "U+016E", "U+0170", "U+0172",
    "U+0174", "U+0176", "U+0179", "U+017B", "U+017D", "S", "U+0243", "Ƃ", "Ƅ",
    "Ƈ", "Ƌ", "Ƒ", "Ƕ", "Ƙ", "U+023D", "U+0220", "Ơ", "Ƣ", "Ƥ", "Ƨ", "Ƭ", "Ư",
    "Ƴ", "Ƶ", "Ƹ", "Ƽ", "Ƿ", "Ǆ", "Ǆ", "Ǉ", "Ǉ", "Ǌ", "Ǌ", "Ǎ", "Ǐ", "Ǒ", "Ǔ",
    "Ǖ", "Ǘ", "Ǚ", "Ǜ", "Ǝ", "Ǟ", "Ǡ", "Ǣ", "Ǥ", "Ǧ", "Ǩ", "Ǫ", "Ǭ", "Ǯ", "Ǳ",
    "Ǳ", "Ǵ", "Ǹ", "Ǻ", "Ǽ", "Ǿ", "U+0200", "U+0202", "U+0204", "U+0206",
    "U+0208", "U+020A", "U+020C", "U+020E", "U+0210", "U+0212", "U+0214",
    "U+0216", "U+0218", "U+021A", "U+021C", "U+021E", "U+0222", "U+0224",
    "U+0226", "U+0228", "U+022A", "U+022C", "U+022E", "U+0230", "U+0232",
    "U+023B", "U+2C7E", "U+2C7F", "U+0241", "U+0246", "U+0248", "U+024A",
    "U+024C", "U+024E", "U+2C6F", "U+2C6D", "U+2C70", "Ɓ", "Ɔ", "Ɖ", "Ɗ", "Ə",
    "Ɛ", "Ɜ", "Ɠ", "Ɡ", "Ɣ", "Ɥ", "Ɦ", "Ɨ", "Ɩ", "Ɪ", "U+2C62", "Ɬ", "Ɯ",
    "U+2C6E", "Ɲ", "Ɵ", "U+2C64", "Ʀ", "Ʂ", "Ʃ", "Ʇ", "Ʈ", "U+0244", "Ʊ", "Ʋ",
    "U+0245", "Ʒ", "Ʝ", "Ʞ", "Ι", "U+0370", "U+0372", "U+0376", "Ͻ", "Ͼ", "Ͽ",
    "Ά", "Έ", "Ή", "Ί", "Α", "Β", "Γ", "Δ", "Ε", "Ζ", "Η", "Θ", "Ι", "Κ", "Λ",
    "Μ", "Ν", "Ξ", "Ο", "Π", "Ρ", "Σ", "Σ", "Τ", "Υ", "Φ", "Χ", "Ψ", "Ω", "Ϊ",
    "Ϋ", "Ό", "Ύ", "Ώ", "Β", "Θ", "Φ", "Π", "Ϗ", "Ϙ", "Ϛ", "Ϝ", "Ϟ", "Ϡ", "Ϣ",
    "Ϥ", "Ϧ", "Ϩ", "Ϫ", "Ϭ", "Ϯ", "Κ", "Ρ", "Ϲ", "U+037F", "Ε", "Ϸ", "Ϻ",
    "U+0410", "U+0411", "U+0412", "U+0413", "U+0414", "U+0415", "U+0416",
    "U+0417", "U+0418", "U+0419", "U+041A", "U+041B", "U+041C", "U+041D",
    "U+041E", "U+041F", "U+0420", "U+0421", "U+0422", "U+0423", "U+0424",
    "U+0425", "U+0426", "U+0427", "U+0428", "U+0429", "U+042A", "U+042B",
    "U+042C", "U+042D", "U+042E", "U+042F", "U+0400", "U+0401", "U+0402",
    "U+0403", "U+0404", "U+0405", "U+0406", "U+0407", "U+0408", "U+0409",
    "U+040A", "U+040B", "U+040C", "U+040D", "U+040E", "U+040F", "U+0460",
    "U+0462", "U+0464", "U+0466", "U+0468", "U+046A", "U+046C", "U+046E",
    "U+0470", "U+0472", "U+0474", "U+0476", "U+0478", "U+047A", "U+047C",
    "U+047E", "Ҁ", "Ҋ", "Ҍ", "Ҏ", "Ґ", "Ғ", "Ҕ", "Җ", "Ҙ", "Қ", "Ҝ", "Ҟ", "Ҡ",
    "Ң", "Ҥ", "Ҧ", "Ҩ", "Ҫ", "Ҭ", "Ү", "Ұ", "Ҳ", "Ҵ", "Ҷ", "Ҹ", "Һ", "Ҽ", "Ҿ",
    "Ӂ", "Ӄ", "Ӆ", "Ӈ", "Ӊ", "Ӌ", "Ӎ", "Ӏ", "Ӑ", "Ӓ", "Ӕ", "Ӗ", "Ә", "Ӛ", "Ӝ",
    "Ӟ", "Ӡ", "Ӣ", "Ӥ", "Ӧ", "Ө", "Ӫ", "Ӭ", "Ӯ", "Ӱ", "Ӳ", "Ӵ", "Ӷ", "Ӹ", "Ӻ",
    "Ӽ", "Ӿ", "U+0500", "U+0502", "U+0504", "U+0506", "U+0508", "U+050A",
    "U+050C", "U+050E", "U+0510", "U+0512", "U+0514", "U+0516", "U+0518",
    "U+051A", "U+051C", "U+051E", "U+0520", "U+0522", "U+0524", "U+0526",
    "U+0528", "U+052A", "U+052C", "U+052E", "U+0531", "U+0532", "U+0533",
    "U+0534", "U+0535", "U+0536", "U+0537", "U+0538", "U+0539", "U+053A",
    "U+053B", "U+053C", "U+053D", "U+053E", "U+053F", "U+0540", "U+0541",
    "U+0542", "U+0543", "U+0544", "U+0545", "U+0546", "U+0547", "U+0548",
    "U+0549", "U+054A", "U+054B", "U+054C", "U+054D", "U+054E", "U+054F",
    "U+0550", "U+0551", "U+0552", "U+0553", "U+0554", "U+0555", "U+0556", "Ა",
    "Ბ", "Გ", "Დ", "Ე", "Ვ", "Ზ", "Თ", "Ი", "Კ", "Ლ", "Მ", "Ნ", "Ო", "Პ", "Ჟ",
    "Რ", "Ს", "Ტ", "Უ", "Ფ", "Ქ", "Ღ", "Ყ", "Შ", "Ჩ", "Ც", "Ძ", "Წ", "Ჭ", "Ხ",
    "Ჯ", "Ჰ", "Ჱ", "Ჲ", "Ჳ", "Ჴ", "Ჵ", "Ჶ", "Ჷ", "Ჸ", "Ჹ", "Ჺ", "Ჽ", "Ჾ", "Ჿ",
    "Ᏸ", "Ᏹ", "Ᏺ", "Ᏻ", "Ᏼ", "Ᏽ", "U+0412", "U+0414", "U+041E", "U+0421",
    "U+0422", "U+0422", "U+042A", "U+0462", "U+A64A", "U+A77D", "U+2C63", "Ᶎ",
    "U+1E00", "U+1E02", "U+1E04", "U+1E06", "U+1E08", "U+1E0A", "U+1E0C",
    "U+1E0E", "U+1E10", "U+1E12", "U+1E14", "U+1E16", "U+1E18", "U+1E1A",
    "U+1E1C", "U+1E1E", "U+1E20", "U+1E22", "U+1E24", "U+1E26", "U+1E28",
    "U+1E2A", "U+1E2C", "U+1E2E", "U+1E30", "U+1E32", "U+1E34", "U+1E36",
    "U+1E38", "U+1E3A", "U+1E3C", "U+1E3E", "U+1E40", "U+1E42", "U+1E44",
    "U+1E46", "U+1E48", "U+1E4A", "U+1E4C", "U+1E4E", "U+1E50", "U+1E52",
    "U+1E54", "U+1E56", "U+1E58", "U+1E5A", "U+1E5C", "U+1E5E", "U+1E60",
    "U+1E62", "U+1E64", "U+1E66", "U+1E68", "U+1E6A", "U+1E6C", "U+1E6E",
    "U+1E70", "U+1E72", "U+1E74", "U+1E76", "U+1E78", "U+1E7A", "U+1E7C",
    "U+1E7E", "Ẁ", "Ẃ", "Ẅ", "Ẇ", "Ẉ", "Ẋ", "Ẍ", "Ẏ", "Ẑ", "Ẓ", "Ẕ", "U+1E60",
    "Ạ", "Ả", "Ấ", "Ầ", "Ẩ", "Ẫ", "Ậ", "Ắ", "Ằ", "Ẳ", "Ẵ", "Ặ", "Ẹ", "Ẻ", "Ẽ",
    "Ế", "Ề", "Ể", "Ễ", "Ệ", "Ỉ", "Ị", "Ọ", "Ỏ", "Ố", "Ồ", "Ổ", "Ỗ", "Ộ", "Ớ",
    "Ờ", "Ở", "Ỡ", "Ợ", "Ụ", "Ủ", "Ứ", "Ừ", "Ử", "Ữ", "Ự", "Ỳ", "Ỵ", "Ỷ", "Ỹ",
    "Ỻ", "Ỽ", "Ỿ", "U+1F08", "U+1F09", "U+1F0A", "U+1F0B", "U+1F0C", "U+1F0D",
    "U+1F0E", "U+1F0F", "U+1F18", "U+1F19", "U+1F1A", "U+1F1B", "U+1F1C",
    "U+1F1D", "U+1F28", "U+1F29", "U+1F2A", "U+1F2B", "U+1F2C", "U+1F2D",
    "U+1F2E", "U+1F2F", "U+1F38", "U+1F39", "U+1F3A", "U+1F3B", "U+1F3C",
    "U+1F3D", "U+1F3E", "U+1F3F", "U+1F48", "U+1F49", "U+1F4A", "U+1F4B",
    "U+1F4C", "U+1F4D", "U+1F59", "U+1F5B", "U+1F5D", "U+1F5F", "U+1F68",
    "U+1F69", "U+1F6A", "U+1F6B", "U+1F6C", "U+1F6D", "U+1F6E", "U+1F6F", "Ὰ",
    "Ά", "Ὲ", "Έ", "Ὴ", "Ή", "Ὶ", "Ί", "Ὸ", "Ό", "Ὺ", "Ύ", "Ὼ", "Ώ", "Ᾰ", "Ᾱ",
    "Ι", "Ῐ", "Ῑ", "Ῠ", "Ῡ", "Ῥ", "U+2132", "U+2160", "U+2161", "U+2162",
    "U+2163", "U+2164", "U+2165", "U+2166", "U+2167", "U+2168", "U+2169",
    "U+216A", "U+216B", "U+216C", "U+216D", "U+216E", "U+216F", "Ↄ", "Ⓐ", "Ⓑ",
    "Ⓒ", "Ⓓ", "Ⓔ", "Ⓕ", "Ⓖ", "Ⓗ", "Ⓘ", "Ⓙ", "Ⓚ", "Ⓛ", "Ⓜ", "Ⓝ", "Ⓞ", "Ⓟ", "Ⓠ",
    "Ⓡ", "Ⓢ", "Ⓣ", "Ⓤ", "Ⓥ", "Ⓦ", "Ⓧ", "Ⓨ", "Ⓩ", "U+2C00", "U+2C01", "U+2C02",
    "U+2C03", "U+2C04", "U+2C05", "U+2C06", "U+2C07", "U+2C08", "U+2C09",
    "U+2C0A", "U+2C0B", "U+2C0C", "U+2C0D", "U+2C0E", "U+2C0F", "U+2C10",
    "U+2C11", "U+2C12", "U+2C13", "U+2C14", "U+2C15", "U+2C16", "U+2C17",
    "U+2C18", "U+2C19", "U+2C1A", "U+2C1B", "U+2C1C", "U+2C1D", "U+2C1E",
    "U+2C1F", "U+2C20", "U+2C21", "U+2C22", "U+2C23", "U+2C24", "U+2C25",
    "U+2C26", "U+2C27", "U+2C28", "U+2C29", "U+2C2A", "U+2C2B", "U+2C2C",
    "U+2C2D", "U+2C2E", "U+2C2F", "U+2C60", "U+023A", "U+023E", "U+2C67",
    "U+2C69", "U+2C6B", "U+2C72", "U+2C75", "Ⲁ", "Ⲃ", "Ⲅ", "Ⲇ", "Ⲉ", "Ⲋ", "Ⲍ",
    "Ⲏ", "Ⲑ", "Ⲓ", "Ⲕ", "Ⲗ", "Ⲙ", "Ⲛ", "Ⲝ", "Ⲟ", "Ⲡ", "Ⲣ", "Ⲥ", "Ⲧ", "Ⲩ", "Ⲫ",
    "Ⲭ", "Ⲯ", "Ⲱ", "Ⲳ", "Ⲵ", "Ⲷ", "Ⲹ", "Ⲻ", "Ⲽ", "Ⲿ", "Ⳁ", "Ⳃ", "Ⳅ", "Ⳇ", "Ⳉ",
    "Ⳋ", "Ⳍ", "Ⳏ", "Ⳑ", "Ⳓ", "Ⳕ", "Ⳗ", "Ⳙ", "Ⳛ", "Ⳝ", "Ⳟ", "Ⳡ", "Ⳣ", "Ⳬ", "Ⳮ",
    "Ⳳ", "Ⴀ", "Ⴁ", "Ⴂ", "Ⴃ", "Ⴄ", "Ⴅ", "Ⴆ", "Ⴇ", "Ⴈ", "Ⴉ", "Ⴊ", "Ⴋ", "Ⴌ", "Ⴍ",
    "Ⴎ", "Ⴏ", "Ⴐ", "Ⴑ", "Ⴒ", "Ⴓ", "Ⴔ", "Ⴕ", "Ⴖ", "Ⴗ", "Ⴘ", "Ⴙ", "Ⴚ", "Ⴛ", "Ⴜ",
    "Ⴝ", "Ⴞ", "Ⴟ", "Ⴠ", "Ⴡ", "Ⴢ", "Ⴣ", "Ⴤ", "Ⴥ", "Ⴧ", "Ⴭ", "U+A640", "U+A642",
    "U+A644", "U+A646", "U+A648", "U+A64A", "U+A64C", "U+A64E", "U+A650",
    "U+A652", "U+A654", "U+A656", "U+A658", "U+A65A", "U+A65C", "U+A65E",
    "U+A660", "U+A662", "U+A664", "U+A666", "U+A668", "U+A66A", "U+A66C", "Ꚁ",
    "Ꚃ", "Ꚅ", "Ꚇ", "Ꚉ", "Ꚋ", "Ꚍ", "Ꚏ", "Ꚑ", "Ꚓ", "Ꚕ", "Ꚗ", "Ꚙ", "Ꚛ", "U+A722",
    "U+A724", "U+A726", "U+A728", "U+A72A", "U+A72C", "U+A72E", "U+A732",
    "U+A734", "U+A736", "U+A738", "U+A73A", "U+A73C", "U+A73E", "U+A740",
    "U+A742", "U+A744", "U+A746", "U+A748", "U+A74A", "U+A74C", "U+A74E",
    "U+A750", "U+A752", "U+A754", "U+A756", "U+A758", "U+A75A", "U+A75C",
    "U+A75E", "U+A760", "U+A762", "U+A764", "U+A766", "U+A768", "U+A76A",
    "U+A76C", "U+A76E", "U+A779", "U+A77B", "U+A77E", "Ꞁ", "Ꞃ", "Ꞅ", "Ꞇ", "Ꞌ",
    "Ꞑ", "Ꞓ", "Ꞔ", "Ꞗ", "Ꞙ", "Ꞛ", "Ꞝ", "Ꞟ", "Ꞡ", "Ꞣ", "Ꞥ", "Ꞧ", "Ꞩ", "Ꞵ", "Ꞷ",
    "Ꞹ", "Ꞻ", "Ꞽ", "Ꞿ", "Ꟁ", "Ꟃ", "Ꟈ", "Ꟊ", "Ꟑ", "Ꟗ", "Ꟙ", "Ꟶ", "Ꭓ", "Ꭰ", "Ꭱ",
    "Ꭲ", "Ꭳ", "Ꭴ", "Ꭵ", "Ꭶ", "Ꭷ", "Ꭸ", "Ꭹ", "Ꭺ", "Ꭻ", "Ꭼ", "Ꭽ", "Ꭾ", "Ꭿ", "Ꮀ",
    "Ꮁ", "Ꮂ", "Ꮃ", "Ꮄ", "Ꮅ", "Ꮆ", "Ꮇ", "Ꮈ", "Ꮉ", "Ꮊ", "Ꮋ", "Ꮌ", "Ꮍ", "Ꮎ", "Ꮏ",
    "Ꮐ", "Ꮑ", "Ꮒ", "Ꮓ", "Ꮔ", "Ꮕ", "Ꮖ", "Ꮗ", "Ꮘ", "Ꮙ", "Ꮚ", "Ꮛ", "Ꮜ", "Ꮝ", "Ꮞ",
    "Ꮟ", "Ꮠ", "Ꮡ", "Ꮢ", "Ꮣ", "Ꮤ", "Ꮥ", "Ꮦ", "Ꮧ", "Ꮨ", "Ꮩ", "Ꮪ", "Ꮫ", "Ꮬ", "Ꮭ",
    "Ꮮ", "Ꮯ", "Ꮰ", "Ꮱ", "Ꮲ", "Ꮳ", "Ꮴ", "Ꮵ", "Ꮶ", "Ꮷ", "Ꮸ", "Ꮹ", "Ꮺ", "Ꮻ", "Ꮼ",
    "Ꮽ", "Ꮾ", "Ꮿ", "U+FF21", "U+FF22", "U+FF23", "U+FF24", "U+FF25", "U+FF26",
    "U+FF27", "U+FF28", "U+FF29", "U+FF2A", "U+FF2B", "U+FF2C", "U+FF2D",
    "U+FF2E", "U+FF2F", "U+FF30", "U+FF31", "U+FF32", "U+FF33", "U+FF34",
    "U+FF35", "U+FF36", "U+FF37", "U+FF38", "U+FF39", "U+FF3A", "U+10400",
    "U+10401", "U+10402", "U+10403", "U+10404", "U+10405", "U+10406",
    "U+10407", "U+10408", "U+10409", "U+1040A", "U+1040B", "U+1040C",
    "U+1040D", "U+1040E", "U+1040F", "U+10410", "U+10411", "U+10412",
    "U+10413", "U+10414", "U+10415", "U+10416", "U+10417", "U+10418",
    "U+10419", "U+1041A", "U+1041B", "U+1041C", "U+1041D", "U+1041E",
    "U+1041F", "U+10420", "U+10421", "U+10422", "U+10423", "U+10424",
    "U+10425", "U+10426", "U+10427", "U+104B0", "U+104B1", "U+104B2",
    "U+104B3", "U+104B4", "U+104B5", "U+104B6", "U+104B7", "U+104B8",
    "U+104B9", "U+104BA", "U+104BB", "U+104BC", "U+104BD", "U+104BE",
    "U+104BF", "U+104C0", "U+104C1", "U+104C2", "U+104C3", "U+104C4",
    "U+104C5", "U+104C6", "U+104C7", "U+104C8", "U+104C9", "U+104CA",
    "U+104CB", "U+104CC", "U+104CD", "U+104CE", "U+104CF", "U+104D0",
    "U+104D1", "U+104D2", "U+104D3", "U+10570", "U+10571", "U+10572",
    "U+10573", "U+10574", "U+10575", "U+10576", "U+10577", "U+10578",
    "U+10579", "U+1057A", "U+1057C", "U+1057D", "U+1057E", "U+1057F",
    "U+10580", "U+10581", "U+10582", "U+10583", "U+10584", "U+10585",
    "U+10586", "U+10587", "U+10588", "U+10589", "U+1058A", "U+1058C",
    "U+1058D", "U+1058E", "U+1058F", "U+10590", "U+10591", "U+10592",
    "U+10594", "U+10595", "U+10C80", "U+10C81", "U+10C82", "U+10C83",
    "U+10C84", "U+10C85", "U+10C86", "U+10C87", "U+10C88", "U+10C89",
    "U+10C8A", "U+10C8B", "U+10C8C", "U+10C8D", "U+10C8E", "U+10C8F",
    "U+10C90", "U+10C91", "U+10C92", "U+10C93", "U+10C94", "U+10C95",
    "U+10C96", "U+10C97", "U+10C98", "U+10C99", "U+10C9A", "U+10C9B",
    "U+10C9C", "U+10C9D", "U+10C9E", "U+10C9F", "U+10CA0", "U+10CA1",
    "U+10CA2", "U+10CA3", "U+10CA4", "U+10CA5", "U+10CA6", "U+10CA7",
    "U+10CA8", "U+10CA9", "U+10CAA", "U+10CAB", "U+10CAC", "U+10CAD",
    "U+10CAE", "U+10CAF", "U+10CB0", "U+10CB1", "U+10CB2", "U+118A0",
    "U+118A1", "U+118A2", "U+118A3", "U+118A4", "U+118A5", "U+118A6",
    "U+118A7", "U+118A8", "U+118A9", "U+118AA", "U+118AB", "U+118AC",
    "U+118AD", "U+118AE", "U+118AF", "U+118B0", "U+118B1", "U+118B2",
    "U+118B3", "U+118B4", "U+118B5", "U+118B6", "U+118B7", "U+118B8",
    "U+118B9", "U+118BA", "U+118BB", "U+118BC", "U+118BD", "U+118BE",
    "U+118BF", "U+16E40", "U+16E41", "U+16E42", "U+16E43", "U+16E44",
    "U+16E45", "U+16E46", "U+16E47", "U+16E48", "U+16E49", "U+16E4A",
    "U+16E4B", "U+16E4C", "U+16E4D", "U+16E4E", "U+16E4F", "U+16E50",
    "U+16E51", "U+16E52", "U+16E53", "U+16E54", "U+16E55", "U+16E56",
    "U+16E57", "U+16E58", "U+16E59", "U+16E5A", "U+16E5B", "U+16E5C",
    "U+16E5D", "U+16E5E", "U+16E5F", "U+1E900", "U+1E901", "U+1E902",
    "U+1E903", "U+1E904", "U+1E905", "U+1E906", "U+1E907", "U+1E908",
    "U+1E909", "U+1E90A", "U+1E90B", "U+1E90C", "U+1E90D", "U+1E90E",
    "U+1E90F", "U+1E910", "U+1E911", "U+1E912", "U+1E913", "U+1E914",
    "U+1E915", "U+1E916", "U+1E917", "U+1E918", "U+1E919", "U+1E91A",
    "U+1E91B", "U+1E91C", "U+1E91D", "U+1E91E", "U+1E91F", "U+1E920",
    "U+1E921">>

\* str.upper(): the characters it turns into several characters, with these.
UpperSpecial ==
  <<<<"ß", <<"S", "S">>>>, <<"U+0149", <<"ʼ", "N">>>>,
    <<"ǰ", <<"J", "U+030C">>>>, <<"ΐ", <<"Ι", "U+0308", "U+0301">>>>,
    <<"ΰ", <<"Υ", "U+0308", "U+0301">>>>, <<"և", <<"U+0535", "U+0552">>>>,
    <<"ẖ", <<"H", "U+0331">>>>, <<"ẗ", <<"T", "U+0308">>>>,
    <<"ẘ", <<"W", "U+030A">>>>, <<"ẙ", <<"Y", "U+030A">>>>,
    <<"ẚ", <<"A", "ʾ">>>>, <<"U+1F50", <<"Υ", "U+0313">>>>,
    <<"U+1F52", <<"Υ", "U+0313", "U+0300">>>>,
    <<"U+1F54", <<"Υ", "U+0313", "U+0301">>>>,
    <<"U+1F56", <<"Υ", "U+0313", "U+0342">>>>, <<"ᾀ", <<"U+1F08", "Ι">>>>,
    <<"ᾁ", <<"U+1F09", "Ι">>>>, <<"ᾂ", <<"U+1F0A", "Ι">>>>,
    <<"ᾃ", <<"U+1F0B", "Ι">>>>, <<"ᾄ", <<"U+1F0C", "Ι">>>>,
    <<"ᾅ", <<"U+1F0D", "Ι">>>>, <<"ᾆ", <<"U+1F0E", "Ι">>>>,
    <<"ᾇ", <<"U+1F0F", "Ι">>>>, <<"ᾈ", <<"U+1F08", "Ι">>>>,
    <<"ᾉ", <<"U+1F09", "Ι">>>>, <<"ᾊ", <<"U+1F0A", "Ι">>>>,
    <<"ᾋ", <<"U+1F0B", "Ι">>>>, <<"ᾌ", <<"U+1F0C", "Ι">>>>,
    <<"ᾍ", <<"U+1F0D", "Ι">>>>, <<"ᾎ", <<"U+1F0E", "Ι">>>>,
    <<"ᾏ", <<"U+1F0F", "Ι">>>>, <<"ᾐ", <<"U+1F28", "Ι">>>>,
    <<"ᾑ", <<"U+1F29", "Ι">>>>, <<"ᾒ", <<"U+1F2A", "Ι">>>>,
    <<"ᾓ", <<"U+1F2B", "Ι">>>>, <<"ᾔ", <<"U+1F2C", "Ι">>>>,
    <<"ᾕ", <<"U+1F2D", "Ι">>>>, <<"ᾖ", <<"U+1F2E", "Ι">>>>,
    <<"ᾗ", <<"U+1F2F", "Ι">>>>, <<"ᾘ", <<"U+1F28", "Ι">>>>,
    <<"ᾙ", <<"U+1F29", "Ι">>>>, <<"ᾚ", <<"U+1F2A", "Ι">>>>,
    <<"ᾛ", <<"U+1F2B", "Ι">>>>, <<"ᾜ", <<"U+1F2C", "Ι">>>>,
    <<"ᾝ", <<"U+1F2D", "Ι">>>>, <<"ᾞ", <<"U+1F2E", "Ι">>>>,
    <<"ᾟ", <<"U+1F2F", "Ι">>>>, <<"ᾠ", <<"U+1F68", "Ι">>>>,
    <<"ᾡ", <<"U+1F69", "Ι">>>>, <<"ᾢ", <<"U+1F6A", "Ι">>>>,
    <<"ᾣ", <<"U+1F6B", "Ι">>>>, <<"ᾤ", <<"U+1F6C", "Ι">>>>,
    <<"ᾥ", <<"U+1F6D", "Ι">>>>, <<"ᾦ", <<"U+1F6E", "Ι">>>>,
    <<"ᾧ", <<"U+1F6F", "Ι">>>>, <<"ᾨ", <<"U+1F68", "Ι">>>>,
    <<"ᾩ", <<"U+1F69", "Ι">>>>, <<"ᾪ", <<"U+1F6A", "Ι">>>>,
    <<"ᾫ", <<"U+1F6B", "Ι">>>>, <<"ᾬ", <<"U+1F6C", "Ι">>>>,
    <<"ᾭ", <<"U+1F6D", "Ι">>>>, <<"ᾮ", <<"U+1F6E", "Ι">>>>,
    <<"ᾯ", <<"U+1F6F", "Ι">>>>, <<"ᾲ", <<"Ὰ", "Ι">>>>, <<"ᾳ", <<"Α", "Ι">>>>,
    <<"ᾴ", <<"Ά", "Ι">>>>, <<"ᾶ", <<"Α", "U+0342">>>>,
    <<"ᾷ", <<"Α", "U+0342", "Ι">>>>, <<"ᾼ", <<"Α", "Ι">>>>,
    <<"ῂ", <<"Ὴ", "Ι">>>>, <<"ῃ", <<"Η", "Ι">>>>, <<"ῄ", <<"Ή", "Ι">>>>,
    <<"ῆ", <<"Η", "U+0342">>>>, <<"ῇ", <<"Η", "U+0342", "Ι">>>>,
    <<"ῌ", <<"Η", "Ι">>>>, <<"ῒ", <<"Ι", "U+0308", "U+0300">>>>,
    <<"ΐ", <<"Ι", "U+0308", "U+0301">>>>, <<"ῖ", <<"Ι", "U+0342">>>>,
    <<"ῗ", <<"Ι", "U+0308", "U+0342">>>>,
    <<"ῢ", <<"Υ", "U+0308", "U+0300">>>>,
    <<"ΰ", <<"Υ", "U+0308", "U+0301">>>>, <<"ῤ", <<"Ρ", "U+0313">>>>,
    <<"ῦ", <<"Υ", "U+0342">>>>, <<"ῧ", <<"Υ", "U+0308", "U+0342">>>>,
    <<"ῲ", <<"Ὼ", "Ι">>>>, <<"ῳ", <<"Ω", "Ι">>>>, <<"ῴ", <<"Ώ", "Ι">>>>,
    <<"ῶ", <<"Ω", "U+0342">>>>, <<"ῷ", <<"Ω", "U+0342", "Ι">>>>,
    <<"ῼ", <<"Ω", "Ι">>>>, <<"U+FB00", <<"F", "F">>>>,
    <<"U+FB01", <<"F", "I">>>>, <<"U+FB02", <<"F", "L">>>>,
    <<"U+FB03", <<"F", "F", "I">>>>, <<"U+FB04", <<"F", "F", "L">>>>,
    <<"U+FB05", <<"S", "T">>>>, <<"U+FB06", <<"S", "T">>>>,
    <<"U+FB13", <<"U+0544", "U+0546">>>>,
    <<"U+FB14", <<"U+0544", "U+0535">>>>,
    <<"U+FB15", <<"U+0544", "U+053B">>>>,
    <<"U+FB16", <<"U+054E", "U+0546">>>>,
    <<"U+FB17", <<"U+0544", "U+053D">>>>>>

\* str.casefold(): the characters it turns into one other character ...
FoldFrom ==
  <<"A", "B", "C", "D", "E", "F", "G", "H", "I", "J", "K", "L", "M", "N", "O",
    "P", "Q", "R", "S", "T", "U", "V", "W", "X", "Y", "Z", "µ", "À", "Á", "Â",
    "Ã", "Ä", "Å", "Æ", "Ç", "È", "É", "Ê", "Ë", "Ì", "Í", "Î", "Ï", "Ð", "Ñ",
    "Ò", "Ó", "Ô", "Õ", "Ö", "Ø", "Ù", "Ú", "Û", "Ü", "Ý", "Þ", "U+0100",
    "U+0102", "U+0104", "U+0106", "U+0108", "U+010A", "U+010C", "U+010E",
    "U+0110", "U+0112", "U+0114", "U+0116", "U+0118", "U+011A", "U+011C",
    "U+011E", "U+0120", "U+0122", "U+0124", "U+0126", "U+0128", "U+012A",
    "U+012C", "U+012E", "U+0132", "U+0134", "U+0136", "U+0139", "U+013B",
    "U+013D", "U+013F", "U+0141", "U+0143", "U+0145", "U+0147", "U+014A",
    "U+014C", "U+014E", "U+0150", "U+0152", "U+0154", "U+0156", "U+0158",
    "U+015A", "U+015C", "U+015E", "U+0160", "U+0162", "U+0164", "U+0166",
    "U+0168", "U+016A", "U+016C", "U+016E", "U+0170", "U+0172", "U+0174",
    "U+0176", "U+0178", "U+0179", "U+017B", "U+017D", "U+017F", "Ɓ", "Ƃ", "Ƅ",
    "Ɔ", "Ƈ", "Ɖ", "Ɗ", "Ƌ", "Ǝ", "Ə", "Ɛ", "Ƒ", "Ɠ", "Ɣ", "Ɩ", "Ɨ", "Ƙ", "Ɯ",
    "Ɲ", "Ɵ", "Ơ", "Ƣ", "Ƥ", "Ʀ", "Ƨ", "Ʃ", "Ƭ", "Ʈ", "Ư", "Ʊ", "Ʋ", "Ƴ", "Ƶ",
    "Ʒ", "Ƹ", "Ƽ", "Ǆ", "ǅ", "Ǉ", "ǈ", "Ǌ", "ǋ", "Ǎ", "Ǐ", "Ǒ", "Ǔ", "Ǖ", "Ǘ",
    "Ǚ", "Ǜ", "Ǟ", "Ǡ", "Ǣ", "Ǥ", "Ǧ", "Ǩ", "Ǫ", "Ǭ", "Ǯ", "Ǳ", "ǲ", "Ǵ", "Ƕ",
    "Ƿ", "Ǹ", "Ǻ", "Ǽ", "Ǿ", "U+0200", "U+0202", "U+0204", "U+0206", "U+0208",
    "U+020A", "U+020C", "U+020E", "U+0210", "U+0212", "U+0214", "U+0216",
    "U+0218", "U+021A", "U+021C", "U+021E", "U+0220", "U+0222", "U+0224",
    "U+0226", "U+0228", "U+022A", "U+022C", "U+022E", "U+0230", "U+0232",
    "U+023A", "U+023B", "U+023D", "U+023E", "U+0241", "U+0243", "U+0244",
    "U+0245", "U+0246", "U+0248", "U+024A", "U+024C", "U+024E", "U+0345",
    "U+0370", "U+0372", "U+0376", "U+037F", "Ά", "Έ", "Ή", "Ί", "Ό", "Ύ", "Ώ",
    "Α", "Β", "Γ", "Δ", "Ε", "Ζ", "Η", "Θ", "Ι", "Κ", "Λ", "Μ", "Ν", "Ξ", "Ο",
    "Π", "Ρ", "Σ", "Τ", "Υ", "Φ", "Χ", "Ψ", "Ω", "Ϊ", "Ϋ", "ς", "Ϗ", "ϐ", "ϑ",
    "ϕ", "ϖ", "Ϙ", "Ϛ", "Ϝ", "Ϟ", "Ϡ", "Ϣ", "Ϥ", "Ϧ", "Ϩ", "Ϫ", "Ϭ", "Ϯ", "ϰ",
    "ϱ", "ϴ", "ϵ", "Ϸ", "Ϲ", "Ϻ", "Ͻ", "Ͼ", "Ͽ", "U+0400", "U+0401", "U+0402",
    "U+0403", "U+0404", "U+0405", "U+0406", "U+0407", "U+0408", "U+0409",
    "U+040A", "U+040B", "U+040C", "U+040D", "U+040E", "U+040F", "U+0410",
    "U+0411", "U+0412", "U+0413", "U+0414", "U+0415", "U+0416", "U+0417",
    "U+0418", "U+0419", "U+041A", "U+041B", "U+041C", "U+041D", "U+041E",
    "U+041F", "U+0420", "U+0421", "U+0422", "U+0423", "U+0424", "U+0425",
    "U+0426", "U+0427", "U+0428", "U+0429", "U+042A", "U+042B", "U+042C",
    "U+042D", "U+042E", "U+042F", "U+0460", "U+0462", "U+0464", "U+0466",
    "U+0468", "U+046A", "U+046C", "U+046E", "U+0470", "U+0472", "U+0474",
    "U+0476", "U+0478", "U+047A", "U+047C", "U+047E", "Ҁ", "Ҋ", "Ҍ", "Ҏ", "Ґ",
    "Ғ", "Ҕ", "Җ", "Ҙ", "Қ", "Ҝ", "Ҟ", "Ҡ", "Ң", "Ҥ", "Ҧ", "Ҩ", "Ҫ", "Ҭ", "Ү",
    "Ұ", "Ҳ", "Ҵ", "Ҷ", "Ҹ", "Һ", "Ҽ", "Ҿ", "Ӏ", "Ӂ", "Ӄ", "Ӆ", "Ӈ", "Ӊ", "Ӌ",
    "Ӎ", "Ӑ", "Ӓ", "Ӕ", "Ӗ", "Ә", "Ӛ", "Ӝ", "Ӟ", "Ӡ", "Ӣ", "Ӥ", "Ӧ", "Ө", "Ӫ",
    "Ӭ", "Ӯ", "Ӱ", "Ӳ", "Ӵ", "Ӷ", "Ӹ", "Ӻ", "Ӽ", "Ӿ", "U+0500", "U+0502",
    "U+0504", "U+0506", "U+0508", "U+050A", "U+050C", "U+050E", "U+0510",
    "U+0512", "U+0514", "U+0516", "U+0518", "U+051A", "U+051C", "U+051E",
    "U+0520", "U+0522", "U+0524", "U+0526", "U+0528", "U+052A", "U+052C",
    "U+052E", "U+0531", "U+0532", "U+0533", "U+0534", "U+0535", "U+0536",
    "U+0537", "U+0538", "U+0539", "U+053A", "U+053B", "U+053C", "U+053D",
    "U+053E", "U+053F", "U+0540", "U+0541", "U+0542", "U+0543", "U+0544",
    "U+0545", "U+0546", "U+0547", "U+0548", "U+0549", "U+054A", "U+054B",
    "U+054C", "U+054D", "U+054E", "U+054F", "U+0550", "U+0551", "U+0552",
    "U+0553", "U+0554", "U+0555", "U+0556", "Ⴀ", "Ⴁ", "Ⴂ", "Ⴃ", "Ⴄ", "Ⴅ", "Ⴆ",
    "Ⴇ", "Ⴈ", "Ⴉ", "Ⴊ", "Ⴋ", "Ⴌ", "Ⴍ", "Ⴎ", "Ⴏ", "Ⴐ", "Ⴑ", "Ⴒ", "Ⴓ", "Ⴔ", "Ⴕ",
    "Ⴖ", "Ⴗ", "Ⴘ", "Ⴙ", "Ⴚ", "Ⴛ", "Ⴜ", "Ⴝ", "Ⴞ", "Ⴟ", "Ⴠ", "Ⴡ", "Ⴢ", "Ⴣ", "Ⴤ",
    "Ⴥ", "Ⴧ", "Ⴭ", "ᏸ", "ᏹ", "ᏺ", "ᏻ", "ᏼ", "ᏽ", "ᲀ", "ᲁ", "ᲂ", "ᲃ", "ᲄ", "ᲅ",
    "ᲆ", "ᲇ", "ᲈ", "Ა", "Ბ", "Გ", "Დ", "Ე", "Ვ", "Ზ", "Თ", "Ი", "Კ", "Ლ", "Მ",
    "Ნ", "Ო", "Პ", "Ჟ", "Რ", "Ს", "Ტ", "Უ", "Ფ", "Ქ", "Ღ", "Ყ", "Შ", "Ჩ", "Ც",
    "Ძ", "Წ", "Ჭ", "Ხ", "Ჯ", "Ჰ", "Ჱ", "Ჲ", "Ჳ", "Ჴ", "Ჵ", "Ჶ", "Ჷ", "Ჸ", "Ჹ",
    "Ჺ", "Ჽ", "Ჾ", "Ჿ", "U+1E00", "U+1E02", "U+1E04", "U+1E06", "U+1E08",
    "U+1E0A", "U+1E0C", "U+1E0E", "U+1E10", "U+1E12", "U+1E14", "U+1E16",
    "U+1E18", "U+1E1A", "U+1E1C", "U+1E1E", "U+1E20", "U+1E22", "U+1E24",
    "U+1E26", "U+1E28", "U+1E2A", "U+1E2C", "U+1E2E", "U+1E30", "U+1E32",
    "U+1E34", "U+1E36", "U+1E38", "U+1E3A", "U+1E3C", "U+1E3E", "U+1E40",
    "U+1E42", "U+1E44", "U+1E46", "U+1E48", "U+1E4A", "U+1E4C", "U+1E4E",
    "U+1E50", "U+1E52", "U+1E54", "U+1E56", "U+1E58", "U+1E5A", "U+1E5C",
    "U+1E5E", "U+1E60", "U+1E62", "U+1E64", "U+1E66", "U+1E68", "U+1E6A",
    "U+1E6C", "U+1E6E", "U+1E70", "U+1E72", "U+1E74", "U+1E76", "U+1E78",
    "U+1E7A", "U+1E7C", "U+1E7E", "Ẁ", "Ẃ", "Ẅ", "Ẇ", "Ẉ", "Ẋ", "Ẍ", "Ẏ", "Ẑ",
    "Ẓ", "Ẕ", "ẛ", "Ạ", "Ả", "Ấ", "Ầ", "Ẩ", "Ẫ", "Ậ", "Ắ", "Ằ", "Ẳ", "Ẵ", "Ặ",
    "Ẹ", "Ẻ", "Ẽ", "Ế", "Ề", "Ể", "Ễ", "Ệ", "Ỉ", "Ị", "Ọ", "Ỏ", "Ố", "Ồ", "Ổ",
    "Ỗ", "Ộ", "Ớ", "Ờ", "Ở", "Ỡ", "Ợ", "Ụ", "Ủ", "Ứ", "Ừ", "Ử", "Ữ", "Ự", "Ỳ",
    "Ỵ", "Ỷ", "Ỹ", "Ỻ", "Ỽ", "Ỿ", "U+1F08", "U+1F09", "U+1F0A", "U+1F0B",
    "U+1F0C", "U+1F0D", "U+1F0E", "U+1F0F", "U+1F18", "U+1F19", "U+1F1A",
    "U+1F1B", "U+1F1C", "U+1F1D", "U+1F28", "U+1F29", "U+1F2A", "U+1F2B",
    "U+1F2C", "U+1F2D", "U+1F2E", "U+1F2F", "U+1F38", "U+1F39", "U+1F3A",
    "U+1F3B", "U+1F3C", "U+1F3D", "U+1F3E", "U+1F3F", "U+1F48", "U+1F49",
    "U+1F4A", "U+1F4B", "U+1F4C", "U+1F4D", "U+1F59", "U+1F5B", "U+1F5D",
    "U+1F5F", "U+1F68", "U+1F69", "U+1F6A", "U+1F6B", "U+1F6C", "U+1F6D",
    "U+1F6E", "U+1F6F", "Ᾰ", "Ᾱ", "Ὰ", "Ά", "ι", "Ὲ", "Έ", "Ὴ", "Ή", "Ῐ", "Ῑ",
    "Ὶ", "Ί", "Ῠ", "Ῡ", "Ὺ", "Ύ", "Ῥ", "Ὸ", "Ό", "Ὼ", "Ώ", "U+2126", "U+212A",
    "U+212B", "U+2132", "U+2160", "U+2161", "U+2162", "U+2163", "U+2164",
    "U+2165", "U+2166", "U+2167", "U+2168", "U+2169", "U+216A", "U+216B",
    "U+216C", "U+216D", "U+216E", "U+216F", "Ↄ", "Ⓐ", "Ⓑ", "Ⓒ", "Ⓓ", "Ⓔ", "Ⓕ",
    "Ⓖ", "Ⓗ", "Ⓘ", "Ⓙ", "Ⓚ", "Ⓛ", "Ⓜ", "Ⓝ", "Ⓞ", "Ⓟ", "Ⓠ", "Ⓡ", "Ⓢ", "Ⓣ", "Ⓤ",
    "Ⓥ", "Ⓦ", "Ⓧ", "Ⓨ", "Ⓩ", "U+2C00", "U+2C01", "U+2C02", "U+2C03", "U+2C04",
    "U+2C05", "U+2C06", "U+2C07", "U+2C08", "U+2C09", "U+2C0A", "U+2C0B",
    "U+2C0C", "U+2C0D", "U+2C0E", "U+2C0F", "U+2C10", "U+2C11", "U+2C12",
    "U+2C13", "U+2C14", "U+2C15", "U+2C16", "U+2C17", "U+2C18", "U+2C19",
    "U+2C1A", "U+2C1B", "U+2C1C", "U+2C1D", "U+2C1E", "U+2C1F", "U+2C20",
    "U+2C21", "U+2C22", "U+2C23", "U+2C24", "U+2C25", "U+2C26", "U+2C27",
    "U+2C28", "U+2C29", "U+2C2A", "U+2C2B", "U+2C2C", "U+2C2D", "U+2C2E",
    "U+2C2F", "U+2C60", "U+2C62", "U+2C63", "U+2C64", "U+2C67", "U+2C69",
    "U+2C6B", "U+2C6D", "U+2C6E", "U+2C6F", "U+2C70", "U+2C72", "U+2C75",
    "U+2C7E", "U+2C7F", "Ⲁ", "Ⲃ", "Ⲅ", "Ⲇ", "Ⲉ", "Ⲋ", "Ⲍ", "Ⲏ", "Ⲑ", "Ⲓ", "Ⲕ",
    "Ⲗ", "Ⲙ", "Ⲛ", "Ⲝ", "Ⲟ", "Ⲡ", "Ⲣ", "Ⲥ", "Ⲧ", "Ⲩ", "Ⲫ", "Ⲭ", "Ⲯ", "Ⲱ", "Ⲳ",
    "Ⲵ", "Ⲷ", "Ⲹ", "Ⲻ", "Ⲽ", "Ⲿ", "Ⳁ", "Ⳃ", "Ⳅ", "Ⳇ", "Ⳉ", "Ⳋ", "Ⳍ", "Ⳏ", "Ⳑ",
    "Ⳓ", "Ⳕ", "Ⳗ", "Ⳙ", "Ⳛ", "Ⳝ", "Ⳟ", "Ⳡ", "Ⳣ", "Ⳬ", "Ⳮ", "Ⳳ", "U+A640",
    "U+A642", "U+A644", "U+A646", "U+A648", "U+A64A", "U+A64C", "U+A64E",
    "U+A650", "U+A652", "U+A654", "U+A656", "U+A658", "U+A65A", "U+A65C",
    "U+A65E", "U+A660", "U+A662", "U+A664", "U+A666", "U+A668", "U+A66A",
    "U+A66C", "Ꚁ", "Ꚃ", "Ꚅ", "Ꚇ", "Ꚉ", "Ꚋ", "Ꚍ", "Ꚏ", "Ꚑ", "Ꚓ", "Ꚕ", "Ꚗ", "Ꚙ",
    "Ꚛ", "U+A722", "U+A724", "U+A726", "U+A728", "U+A72A", "U+A72C", "U+A72E",
    "U+A732", "U+A734", "U+A736", "U+A738", "U+A73A", "U+A73C", "U+A73E",
    "U+A740", "U+A742", "U+A744", "U+A746", "U+A748", "U+A74A", "U+A74C",
    "U+A74E", "U+A750", "U+A752", "U+A754", "U+A756", "U+A758", "U+A75A",
    "U+A75C", "U+A75E", "U+A760", "U+A762", "U+A764", "U+A766", "U+A768",
    "U+A76A", "U+A76C", "U+A76E", "U+A779", "U+A77B", "U+A77D", "U+A77E", "Ꞁ",
    "Ꞃ", "Ꞅ", "Ꞇ", "Ꞌ", "Ɥ", "Ꞑ", "Ꞓ", "Ꞗ", "Ꞙ", "Ꞛ", "Ꞝ", "Ꞟ", "Ꞡ", "Ꞣ", "Ꞥ",
    "Ꞧ", "Ꞩ", "Ɦ", "Ɜ", "Ɡ", "Ɬ", "Ɪ", "Ʞ", "Ʇ", "Ʝ", "Ꭓ", "Ꞵ", "Ꞷ", "Ꞹ", "Ꞻ",
    "Ꞽ", "Ꞿ", "Ꟁ", "Ꟃ", "Ꞔ", "Ʂ", "Ᶎ", "Ꟈ", "Ꟊ", "Ꟑ", "Ꟗ", "Ꟙ", "Ꟶ", "U+AB70",
    "U+AB71", "U+AB72", "U+AB73", "U+AB74", "U+AB75", "U+AB76", "U+AB77",
    "U+AB78", "U+AB79", "U+AB7A", "U+AB7B", "U+AB7C", "U+AB7D", "U+AB7E",
    "U+AB7F", "ꮀ", "ꮁ", "ꮂ", "ꮃ", "ꮄ", "ꮅ", "ꮆ", "ꮇ", "ꮈ", "ꮉ", "ꮊ", "ꮋ", "ꮌ",
    "ꮍ", "ꮎ", "ꮏ", "ꮐ", "ꮑ", "ꮒ", "ꮓ", "ꮔ", "ꮕ", "ꮖ", "ꮗ", "ꮘ", "ꮙ", "ꮚ", "ꮛ",
    "ꮜ", "ꮝ", "ꮞ", "ꮟ", "ꮠ", "ꮡ", "ꮢ", "ꮣ", "ꮤ", "ꮥ", "ꮦ", "ꮧ", "ꮨ", "ꮩ", "ꮪ",
    "ꮫ", "ꮬ", "ꮭ", "ꮮ", "ꮯ", "ꮰ", "ꮱ", "ꮲ", "ꮳ", "ꮴ", "ꮵ", "ꮶ", "ꮷ", "ꮸ", "ꮹ",
    "ꮺ", "ꮻ", "ꮼ", "ꮽ", "ꮾ", "ꮿ", "U+FF21", "U+FF22", "U+FF23", "U+FF24",
    "U+FF25", "U+FF26", "U+FF27", "U+FF28", "U+FF29", "U+FF2A", "U+FF2B",
    "U+FF2C", "U+FF2D", "U+FF2E", "U+FF2F", "U+FF30", "U+FF31", "U+FF32",
    "U+FF33", "U+FF34", "U+FF35", "U+FF36", "U+FF37", "U+FF38", "U+FF39",
    "U+FF3A", "U+10400", "U+10401", "U+10402", "U+10403", "U+10404",
    "U+10405", "U+10406", "U+10407", "U+10408", "U+10409", "U+1040A",
    "U+1040B", "U+1040C", "U+1040D", "U+1040E", "U+1040F", "U+10410",
    "U+10411", "U+10412", "U+10413", "U+10414", "U+10415", "U+10416",
    "U+10417", "U+10418", "U+10419", "U+1041A", "U+1041B", "U+1041C",
    "U+1041D", "U+1041E", "U+1041F", "U+10420", "U+10421", "U+10422",
    "U+10423", "U+10424", "U+10425", "U+10426", "U+10427", "U+104B0",
    "U+104B1", "U+104B2", "U+104B3", "U+104B4", "U+104B5", "U+104B6",
    "U+104B7", "U+104B8", "U+104B9", "U+104BA", "U+104BB", "U+104BC",
    "U+104BD", "U+104BE", "U+104BF", "U+104C0", "U+104C1", "U+104C2",
    "U+104C3", "U+104C4", "U+104C5", "U+104C6", "U+104C7", "U+104C8",
    "U+104C9", "U+104CA", "U+104CB", "U+104CC", "U+104CD", "U+104CE",
    "U+104CF", "U+104D0", "U+104D1", "U+104D2", "U+104D3", "U+10570",
    "U+10571", "U+10572", "U+10573", "U+10574", "U+10575", "U+10576",
    "U+10577", "U+10578", "U+10579", "U+1057A", "U+1057C", "U+1057D",
    "U+1057E", "U+1057F", "U+10580", "U+10581", "U+10582", "U+10583",
    "U+10584", "U+10585", "U+10586", "U+10587", "U+10588", "U+10589",
    "U+1058A", "U+1058C", "U+1058D", "U+1058E", "U+1058F", "U+10590",
    "U+10591", "U+10592", "U+10594", "U+10595", "U+10C80", "U+10C81",
    "U+10C82", "U+10C83", "U+10C84", "U+10C85", "U+10C86", "U+10C87",
    "U+10C88", "U+10C89", "U+10C8A", "U+10C8B", "U+10C8C", "U+10C8D",
    "U+10C8E", "U+10C8F", "U+10C90", "U+10C91", "U+10C92", "U+10C93",
    "U+10C94", "U+10C95", "U+10C96", "U+10C97", "U+10C98", "U+10C99",
    "U+10C9A", "U+10C9B", "U+10C9C", "U+10C9D", "U+10C9E", "U+10C9F",
    "U+10CA0", "U+10CA1", "U+10CA2", "U+10CA3", "U+10CA4", "U+10CA5",
    "U+10CA6", "U+10CA7", "U+10CA8", "U+10CA9", "U+10CAA", "U+10CAB",
    "U+10CAC", "U+10CAD", "U+10CAE", "U+10CAF", "U+10CB0", "U+10CB1",
    "U+10CB2", "U+118A0", "U+118A1", "U+118A2", "U+118A3", "U+118A4",
    "U+118A5", "U+118A6", "U+118A7", "U+118A8", "U+118A9", "U+118AA",
    "U+118AB", "U+118AC", "U+118AD", "U+118AE", "U+118AF", "U+118B0",
    "U+118B1", "U+118B2", "U+118B3", "U+118B4", "U+118B5", "U+118B6",
    "U+118B7", "U+118B8", "U+118B9", "U+118BA", "U+118BB", "U+118BC",
    "U+118BD", "U+118BE", "U+118BF", "U+16E40", "U+16E41", "U+16E42",
    "U+16E43", "U+16E44", "U+16E45", "U+16E46", "U+16E47", "U+16E48",
    "U+16E49", "U+16E4A", "U+16E4B", "U+16E4C", "U+16E4D", "U+16E4E",
    "U+16E4F", "U+16E50", "U+16E51", "U+16E52", "U+16E53", "U+16E54",
    "U+16E55", "U+16E56", "U+16E57", "U+16E58", "U+16E59", "U+16E5A",
    "U+16E5B", "U+16E5C", "U+16E5D", "U+16E5E", "U+16E5F", "U+1E900",
    "U+1E901", "U+1E902", "U+1E903", "U+1E904", "U+1E905", "U+1E906",
    "U+1E907", "U+1E908", "U+1E909", "U+1E90A", "U+1E90B", "U+1E90C",
    "U+1E90D", "U+1E90E", "U+1E90F", "U+1E910", "U+1E911", "U+1E912",
    "U+1E913", "U+1E914", "U+1E915", "U+1E916", "U+1E917", "U+1E918",
    "U+1E919", "U+1E91A", "U+1E91B", "U+1E91C", "U+1E91D", "U+1E91E",
    "U+1E91F", "U+1E920", "U+1E921">>

\* ... and the character each one is turned into.
FoldTo ==
  <<"a", "b", "c", "d", "e", "f", "g", "h", "i", "j", "k", "l", "m", "n", "o",
    "p", "q", "r", "s", "t", "u", "v", "w", "x", "y", "z", "μ", "à", "á", "â",
    "ã", "ä", "å", "æ", "ç", "è", "é", "ê", "ë", "ì", "í", "î", "ï", "ð", "ñ",
    "ò", "ó", "ô", "õ", "ö", "ø", "ù", "ú", "û", "ü", "ý", "þ", "U+0101",
    "U+0103", "U+0105", "U+0107", "U+0109", "U+010B", "U+010D", "U+010F",
    "U+0111", "U+0113", "U+0115", "U+0117", "U+0119", "U+011B", "U+011D",
    "U+011F", "U+0121", "U+0123", "U+0125", "U+0127", "U+0129", "U+012B",
    "U+012D", "U+012F", "U+0133", "U+0135", "U+0137", "U+013A", "U+013C",
    "U+013E", "U+0140", "U+0142", "U+0144", "U+0146", "U+0148", "U+014B",
    "U+014D", "U+014F", "U+0151", "U+0153", "U+0155", "U+0157", "U+0159",
    "U+015B", "U+015D", "U+015F", "U+0161", "U+0163", "U+0165", "U+0167",
    "U+0169", "U+016B", "U+016D", "U+016F", "U+0171", "U+0173", "U+0175",
    "U+0177", "ÿ", "U+017A", "U+017C", "U+017E", "s", "U+0253", "ƃ", "ƅ",
    "U+0254", "ƈ", "U+0256", "U+0257", "ƌ", "ǝ", "U+0259", "U+025B", "ƒ",
    "U+0260", "U+0263", "U+0269", "U+0268", "ƙ", "U+026F", "U+0272", "U+0275",
    "ơ", "ƣ", "ƥ", "ʀ", "ƨ", "ʃ", "ƭ", "ʈ", "ư", "ʊ", "ʋ", "ƴ", "ƶ", "ʒ", "ƹ",
    "ƽ", "ǆ", "ǆ", "ǉ", "ǉ", "ǌ", "ǌ", "ǎ", "ǐ", "ǒ", "ǔ", "ǖ", "ǘ", "ǚ", "ǜ",
    "ǟ", "ǡ", "ǣ", "ǥ", "ǧ", "ǩ", "ǫ", "ǭ", "ǯ", "ǳ", "ǳ", "ǵ", "ƕ", "ƿ", "ǹ",
    "ǻ", "ǽ", "ǿ", "U+0201", "U+0203", "U+0205", "U+0207", "U+0209", "U+020B",
    "U+020D", "U+020F", "U+0211", "U+0213", "U+0215", "U+0217", "U+0219",
    "U+021B", "U+021D", "U+021F", "ƞ", "U+0223", "U+0225", "U+0227", "U+0229",
    "U+022B", "U+022D", "U+022F", "U+0231", "U+0233", "U+2C65", "U+023C", "ƚ",
    "U+2C66", "U+0242", "ƀ", "ʉ", "ʌ", "U+0247", "U+0249", "U+024B", "U+024D",
    "U+024F", "ι", "U+0371", "U+0373", "U+0377", "ϳ", "ά", "έ", "ή", "ί", "ό",
    "ύ", "ώ", "α", "β", "γ", "δ", "ε", "ζ", "η", "θ", "ι", "κ", "λ", "μ", "ν",
    "ξ", "ο", "π", "ρ", "σ", "τ", "υ", "φ", "χ", "ψ", "ω", "ϊ", "ϋ", "σ", "ϗ",
    "β", "θ", "φ", "π", "ϙ", "ϛ", "ϝ", "ϟ", "ϡ", "ϣ", "ϥ", "ϧ", "ϩ", "ϫ", "ϭ",
    "ϯ", "κ", "ρ", "θ", "ε", "ϸ", "ϲ", "ϻ", "U+037B", "U+037C", "U+037D",
    "U+0450", "U+0451", "U+0452", "U+0453", "U+0454", "U+0455", "U+0456",
    "U+0457", "U+0458", "U+0459", "U+045A", "U+045B", "U+045C", "U+045D",
    "U+045E", "U+045F", "U+0430", "U+0431", "U+0432", "U+0433", "U+0434",
    "U+0435", "U+0436", "U+0437", "U+0438", "U+0439", "U+043A", "U+043B",
    "U+043C", "U+043D", "U+043E", "U+043F", "U+0440", "U+0441", "U+0442",
    "U+0443", "U+0444", "U+0445", "U+0446", "U+0447", "U+0448", "U+0449",
    "U+044A", "U+044B", "U+044C", "U+044D", "U+044E", "U+044F", "U+0461",
    "U+0463", "U+0465", "U+0467", "U+0469", "U+046B", "U+046D", "U+046F",
    "U+0471", "U+0473", "U+0475", "U+0477", "U+0479", "U+047B", "U+047D",
    "U+047F", "ҁ", "ҋ", "ҍ", "ҏ", "ґ", "ғ", "ҕ", "җ", "ҙ", "қ", "ҝ", "ҟ", "ҡ",
    "ң", "ҥ", "ҧ", "ҩ", "ҫ", "ҭ", "ү", "ұ", "ҳ", "ҵ", "ҷ", "ҹ", "һ", "ҽ", "ҿ",
    "ӏ", "ӂ", "ӄ", "ӆ", "ӈ", "ӊ", "ӌ", "ӎ", "ӑ", "ӓ", "ӕ", "ӗ", "ә", "ӛ", "ӝ",
    "ӟ", "ӡ", "ӣ", "ӥ", "ӧ", "ө", "ӫ", "ӭ", "ӯ", "ӱ", "ӳ", "ӵ", "ӷ", "ӹ", "ӻ",
    "ӽ", "ӿ", "U+0501", "U+0503", "U+0505", "U+0507", "U+0509", "U+050B",
    "U+050D", "U+050F", "U+0511", "U+0513", "U+0515", "U+0517", "U+0519",
    "U+051B", "U+051D", "U+051F", "U+0521", "U+0523", "U+0525", "U+0527",
    "U+0529", "U+052B", "U+052D", "U+052F", "U+0561", "U+0562", "U+0563",
    "U+0564", "U+0565", "U+0566", "U+0567", "U+0568", "U+0569", "U+056A",
    "U+056B", "U+056C", "U+056D", "U+056E", "U+056F", "U+0570", "U+0571",
    "U+0572", "U+0573", "U+0574", "U+0575", "U+0576", "U+0577", "U+0578",
    "U+0579", "U+057A", "U+057B", "U+057C", "U+057D", "U+057E", "U+057F", "ր",
    "ց", "ւ", "փ", "ք", "օ", "ֆ", "U+2D00", "U+2D01", "U+2D02", "U+2D03",
    "U+2D04", "U+2D05", "U+2D06", "U+2D07", "U+2D08", "U+2D09", "U+2D0A",
    "U+2D0B", "U+2D0C", "U+2D0D", "U+2D0E", "U+2D0F", "U+2D10", "U+2D11",
    "U+2D12", "U+2D13", "U+2D14", "U+2D15", "U+2D16", "U+2D17", "U+2D18",
    "U+2D19", "U+2D1A", "U+2D1B", "U+2D1C", "U+2D1D", "U+2D1E", "U+2D1F",
    "U+2D20", "U+2D21", "U+2D22", "U+2D23", "U+2D24", "U+2D25", "U+2D27",
    "U+2D2D", "Ᏸ", "Ᏹ", "Ᏺ", "Ᏻ", "Ᏼ", "Ᏽ", "U+0432", "U+0434", "U+043E",
    "U+0441", "U+0442", "U+0442", "U+044A", "U+0463", "U+A64B", "ა", "ბ", "გ",
    "დ", "ე", "ვ", "ზ", "თ", "ი", "კ", "ლ", "მ", "ნ", "ო", "პ", "ჟ", "რ", "ს",
    "ტ", "უ", "ფ", "ქ", "ღ", "ყ", "შ", "ჩ", "ც", "ძ", "წ", "ჭ", "ხ", "ჯ", "ჰ",
    "ჱ", "ჲ", "ჳ", "ჴ", "ჵ", "ჶ", "ჷ", "ჸ", "ჹ", "ჺ", "ჽ", "ჾ", "ჿ", "U+1E01",
    "U+1E03", "U+1E05", "U+1E07", "U+1E09", "U+1E0B", "U+1E0D", "U+1E0F",
    "U+1E11", "U+1E13", "U+1E15", "U+1E17", "U+1E19", "U+1E1B", "U+1E1D",
    "U+1E1F", "U+1E21", "U+1E23", "U+1E25", "U+1E27", "U+1E29", "U+1E2B",
    "U+1E2D", "U+1E2F", "U+1E31", "U+1E33", "U+1E35", "U+1E37", "U+1E39",
    "U+1E3B", "U+1E3D", "U+1E3F", "U+1E41", "U+1E43", "U+1E45", "U+1E47",
    "U+1E49", "U+1E4B", "U+1E4D", "U+1E4F", "U+1E51", "U+1E53", "U+1E55",
    "U+1E57", "U+1E59", "U+1E5B", "U+1E5D", "U+1E5F", "U+1E61", "U+1E63",
    "U+1E65", "U+1E67", "U+1E69", "U+1E6B", "U+1E6D", "U+1E6F", "U+1E71",
    "U+1E73", "U+1E75", "U+1E77", "U+1E79", "U+1E7B", "U+1E7D", "U+1E7F", "ẁ",
    "ẃ", "ẅ", "ẇ", "ẉ", "ẋ", "ẍ", "ẏ", "ẑ", "ẓ", "ẕ", "U+1E61", "ạ", "ả", "ấ",
    "ầ", "ẩ", "ẫ", "ậ", "ắ", "ằ", "ẳ", "ẵ", "ặ", "ẹ", "ẻ", "ẽ", "ế", "ề", "ể",
    "ễ", "ệ", "ỉ", "ị", "ọ", "ỏ", "ố", "ồ", "ổ", "ỗ", "ộ", "ớ", "ờ", "ở", "ỡ",
    "ợ", "ụ", "ủ", "ứ", "ừ", "ử", "ữ", "ự", "ỳ", "ỵ", "ỷ", "ỹ", "ỻ", "ỽ", "ỿ",
    "U+1F00", "U+1F01", "U+1F02", "U+1F03", "U+1F04", "U+1F05", "U+1F06",
    "U+1F07", "U+1F10", "U+1F11", "U+1F12", "U+1F13", "U+1F14", "U+1F15",
    "U+1F20", "U+1F21", "U+1F22", "U+1F23", "U+1F24", "U+1F25", "U+1F26",
    "U+1F27", "U+1F30", "U+1F31", "U+1F32", "U+1F33", "U+1F34", "U+1F35",
    "U+1F36", "U+1F37", "U+1F40", "U+1F41", "U+1F42", "U+1F43", "U+1F44",
    "U+1F45", "U+1F51", "U+1F53", "U+1F55", "U+1F57", "U+1F60", "U+1F61",
    "U+1F62", "U+1F63", "U+1F64", "U+1F65", "U+1F66", "U+1F67", "ᾰ", "ᾱ",
    "U+1F70", "U+1F71", "ι", "U+1F72", "U+1F73", "U+1F74", "U+1F75", "ῐ", "ῑ",
    "U+1F76", "U+1F77", "ῠ", "ῡ", "U+1F7A", "U+1F7B", "ῥ", "U+1F78", "U+1F79",
    "U+1F7C", "U+1F7D", "ω", "k", "å", "U+214E", "U+2170", "U+2171", "U+2172",
    "U+2173", "U+2174", "U+2175", "U+2176", "U+2177", "U+2178", "U+2179",
    "U+217A", "U+217B", "U+217C", "U+217D", "U+217E", "U+217F", "ↄ", "ⓐ", "ⓑ",
    "ⓒ", "ⓓ", "ⓔ", "ⓕ", "ⓖ", "ⓗ", "ⓘ", "ⓙ", "ⓚ", "ⓛ", "ⓜ", "ⓝ", "ⓞ", "ⓟ", "ⓠ",
    "ⓡ", "ⓢ", "ⓣ", "ⓤ", "ⓥ", "ⓦ", "ⓧ", "ⓨ", "ⓩ", "U+2C30", "U+2C31", "U+2C32",
    "U+2C33", "U+2C34", "U+2C35", "U+2C36", "U+2C37", "U+2C38", "U+2C39",
    "U+2C3A", "U+2C3B", "U+2C3C", "U+2C3D", "U+2C3E", "U+2C3F", "U+2C40",
    "U+2C41", "U+2C42", "U+2C43", "U+2C44", "U+2C45", "U+2C46", "U+2C47",
    "U+2C48", "U+2C49", "U+2C4A", "U+2C4B", "U+2C4C", "U+2C4D", "U+2C4E",
    "U+2C4F", "U+2C50", "U+2C51", "U+2C52", "U+2C53", "U+2C54", "U+2C55",
    "U+2C56", "U+2C57", "U+2C58", "U+2C59", "U+2C5A", "U+2C5B", "U+2C5C",
    "U+2C5D", "U+2C5E", "U+2C5F", "U+2C61", "U+026B", "U+1D7D", "U+027D",
    "U+2C68", "U+2C6A", "U+2C6C", "U+0251", "U+0271", "U+0250", "U+0252",
    "U+2C73", "U+2C76", "U+023F", "U+0240", "ⲁ", "ⲃ", "ⲅ", "ⲇ", "ⲉ", "ⲋ", "ⲍ",
    "ⲏ", "ⲑ", "ⲓ", "ⲕ", "ⲗ", "ⲙ", "ⲛ", "ⲝ", "ⲟ", "ⲡ", "ⲣ", "ⲥ", "ⲧ", "ⲩ", "ⲫ",
    "ⲭ", "ⲯ", "ⲱ", "ⲳ", "ⲵ", "ⲷ", "ⲹ", "ⲻ", "ⲽ", "ⲿ", "ⳁ", "ⳃ", "ⳅ", "ⳇ", "ⳉ",
    "ⳋ", "ⳍ", "ⳏ", "ⳑ", "ⳓ", "ⳕ", "ⳗ", "ⳙ", "ⳛ", "ⳝ", "ⳟ", "ⳡ", "ⳣ", "ⳬ", "ⳮ",
    "ⳳ", "U+A641", "U+A643", "U+A645", "U+A647", "U+A649", "U+A64B", "U+A64D",
    "U+A64F", "U+A651", "U+A653", "U+A655", "U+A657", "U+A659", "U+A65B",
    "U+A65D", "U+A65F", "U+A661", "U+A663", "U+A665", "U+A667", "U+A669",
    "U+A66B", "U+A66D", "ꚁ", "ꚃ", "ꚅ", "ꚇ", "ꚉ", "ꚋ", "ꚍ", "ꚏ", "ꚑ", "ꚓ", "ꚕ",
    "ꚗ", "ꚙ", "ꚛ", "U+A723", "U+A725", "U+A727", "U+A729", "U+A72B", "U+A72D",
    "U+A72F", "U+A733", "U+A735", "U+A737", "U+A739", "U+A73B", "U+A73D",
    "U+A73F", "U+A741", "U+A743", "U+A745", "U+A747", "U+A749", "U+A74B",
    "U+A74D", "U+A74F", "U+A751", "U+A753", "U+A755", "U+A757", "U+A759",
    "U+A75B", "U+A75D", "U+A75F", "U+A761", "U+A763", "U+A765", "U+A767",
    "U+A769", "U+A76B", "U+A76D", "U+A76F", "U+A77A", "U+A77C", "U+1D79",
    "U+A77F", "ꞁ", "ꞃ", "ꞅ", "ꞇ", "ꞌ", "U+0265", "ꞑ", "ꞓ", "ꞗ", "ꞙ", "ꞛ", "ꞝ",
    "ꞟ", "ꞡ", "ꞣ", "ꞥ", "ꞧ", "ꞩ", "U+0266", "U+025C", "U+0261", "U+026C",
    "U+026A", "ʞ", "ʇ", "ʝ", "U+AB53", "ꞵ", "ꞷ", "ꞹ", "ꞻ", "ꞽ", "ꞿ", "ꟁ", "ꟃ",
    "ꞔ", "ʂ", "ᶎ", "ꟈ", "ꟊ", "ꟑ", "ꟗ", "ꟙ", "ꟶ", "Ꭰ", "Ꭱ", "Ꭲ", "Ꭳ", "Ꭴ", "Ꭵ",
    "Ꭶ", "Ꭷ", "Ꭸ", "Ꭹ", "Ꭺ", "Ꭻ", "Ꭼ", "Ꭽ", "Ꭾ", "Ꭿ", "Ꮀ", "Ꮁ", "Ꮂ", "Ꮃ", "Ꮄ",
    "Ꮅ", "Ꮆ", "Ꮇ", "Ꮈ", "Ꮉ", "Ꮊ", "Ꮋ", "Ꮌ", "Ꮍ", "Ꮎ", "Ꮏ", "Ꮐ", "Ꮑ", "Ꮒ", "Ꮓ",
    "Ꮔ", "Ꮕ", "Ꮖ", "Ꮗ", "Ꮘ", "Ꮙ", "Ꮚ", "Ꮛ", "Ꮜ", "Ꮝ", "Ꮞ", "Ꮟ", "Ꮠ", "Ꮡ", "Ꮢ",
    "Ꮣ", "Ꮤ", "Ꮥ", "Ꮦ", "Ꮧ", "Ꮨ", "Ꮩ", "Ꮪ", "Ꮫ", "Ꮬ", "Ꮭ", "Ꮮ", "Ꮯ", "Ꮰ", "Ꮱ",
    "Ꮲ", "Ꮳ", "Ꮴ", "Ꮵ", "Ꮶ", "Ꮷ", "Ꮸ", "Ꮹ", "Ꮺ", "Ꮻ", "Ꮼ", "Ꮽ", "Ꮾ", "Ꮿ",
    "U+FF41", "U+FF42", "U+FF43", "U+FF44", "U+FF45", "U+FF46", "U+FF47",
    "U+FF48", "U+FF49", "U+FF4A", "U+FF4B", "U+FF4C", "U+FF4D", "U+FF4E",
    "U+FF4F", "U+FF50", "U+FF51", "U+FF52", "U+FF53", "U+FF54", "U+FF55",
    "U+FF56", "U+FF57", "U+FF58", "U+FF59", "U+FF5A", "U+10428", "U+10429",
    "U+1042A", "U+1042B", "U+1042C", "U+1042D", "U+1042E", "U+1042F",
    "U+10430", "U+10431", "U+10432", "U+10433", "U+10434", "U+10435",
    "U+10436", "U+10437", "U+10438", "U+10439", "U+1043A", "U+1043B",
    "U+1043C", "U+1043D", "U+1043E", "U+1043F", "U+10440", "U+10441",
    "U+10442", "U+10443", "U+10444", "U+10445", "U+10446", "U+10447",
    "U+10448", "U+10449", "U+1044A", "U+1044B", "U+1044C", "U+1044D",
    "U+1044E", "U+1044F", "U+104D8", "U+104D9", "U+104DA", "U+104DB",
    "U+104DC", "U+104DD", "U+104DE", "U+104DF", "U+104E0", "U+104E1",
    "U+104E2", "U+104E3", "U+104E4", "U+104E5", "U+104E6", "U+104E7",
    "U+104E8", "U+104E9", "U+104EA", "U+104EB", "U+104EC", "U+104ED",
    "U+104EE", "U+104EF", "U+104F0", "U+104F1", "U+104F2", "U+104F3",
    "U+104F4", "U+104F5", "U+104F6", "U+104F7", "U+104F8", "U+104F9",
    "U+104FA", "U+104FB", "U+10597", "U+10598", "U+10599", "U+1059A",
    "U+1059B", "U+1059C", "U+1059D", "U+1059E", "U+1059F", "U+105A0",
    "U+105A1", "U+105A3", "U+105A4", "U+105A5", "U+105A6", "U+105A7",
    "U+105A8", "U+105A9", "U+105AA", "U+105AB", "U+105AC", "U+105AD",
    "U+105AE", "U+105AF", "U+105B0", "U+105B1", "U+105B3", "U+105B4",
    "U+105B5", "U+105B6", "U+105B7", "U+105B8", "U+105B9", "U+105BB",
    "U+105BC", "U+10CC0", "U+10CC1", "U+10CC2", "U+10CC3", "U+10CC4",
    "U+10CC5", "U+10CC6", "U+10CC7", "U+10CC8", "U+10CC9", "U+10CCA",
    "U+10CCB", "U+10CCC", "U+10CCD", "U+10CCE", "U+10CCF", "U+10CD0",
    "U+10CD1", "U+10CD2", "U+10CD3", "U+10CD4", "U+10CD5", "U+10CD6",
    "U+10CD7", "U+10CD8", "U+10CD9", "U+10CDA", "U+10CDB", "U+10CDC",
    "U+10CDD", "U+10CDE", "U+10CDF", "U+10CE0", "U+10CE1", "U+10CE2",
    "U+10CE3", "U+10CE4", "U+10CE5", "U+10CE6", "U+10CE7", "U+10CE8",
    "U+10CE9", "U+10CEA", "U+10CEB", "U+10CEC", "U+10CED", "U+10CEE",
    "U+10CEF", "U+10CF0", "U+10CF1", "U+10CF2", "U+118C0", "U+118C1",
    "U+118C2", "U+118C3", "U+118C4", "U+118C5", "U+118C6", "U+118C7",
    "U+118C8", "U+118C9", "U+118CA", "U+118CB", "U+118CC", "U+118CD",
    "U+118CE", "U+118CF", "U+118D0", "U+118D1", "U+118D2", "U+118D3",
    "U+118D4", "U+118D5", "U+118D6", "U+118D7", "U+118D8", "U+118D9",
    "U+118DA", "U+118DB", "U+118DC", "U+118DD", "U+118DE", "U+118DF",
    "U+16E60", "U+16E61", "U+16E62", "U+16E63", "U+16E64", "U+16E65",
    "U+16E66", "U+16E67", "U+16E68", "U+16E69", "U+16E6A", "U+16E6B",
    "U+16E6C", "U+16E6D", "U+16E6E", "U+16E6F", "U+16E70", "U+16E71",
    "U+16E72", "U+16E73", "U+16E74", "U+16E75", "U+16E76", "U+16E77",
    "U+16E78", "U+16E79", "U+16E7A", "U+16E7B", "U+16E7C", "U+16E7D",
    "U+16E7E", "U+16E7F", "U+1E922", "U+1E923", "U+1E924", "U+1E925",
    "U+1E926", "U+1E927", "U+1E928", "U+1E929", "U+1E92A", "U+1E92B",
    "U+1E92C", "U+1E92D", "U+1E92E", "U+1E92F", "U+1E930", "U+1E931",
    "U+1E932", "U+1E933", "U+1E934", "U+1E935", "U+1E936", "U+1E937",
    "U+1E938", "U+1E939", "U+1E93A", "U+1E93B", "U+1E93C", "U+1E93D",
    "U+1E93E", "U+1E93F", "U+1E940", "U+1E941", "U+1E942", "U+1E943">>

\* str.casefold(): the characters it turns into several characters, with these.
FoldSpecial ==
  <<<<"ß", <<"s", "s">>>>, <<"U+0130", <<"i", "U+0307">>>>,
    <<"U+0149", <<"ʼ", "n">>>>, <<"ǰ", <<"j", "U+030C">>>>,
    <<"ΐ", <<"ι", "U+0308", "U+0301">>>>,
    <<"ΰ", <<"υ", "U+0308", "U+0301">>>>, <<"և", <<"U+0565", "ւ">>>>,
    <<"ẖ", <<"h", "U+0331">>>>, <<"ẗ", <<"t", "U+0308">>>>,
    <<"ẘ", <<"w", "U+030A">>>>, <<"ẙ", <<"y", "U+030A">>>>,
    <<"ẚ", <<"a", "ʾ">>>>, <<"ẞ", <<"s", "s">>>>,
    <<"U+1F50", <<"υ", "U+0313">>>>,
    <<"U+1F52", <<"υ", "U+0313", "U+0300">>>>,
    <<"U+1F54", <<"υ", "U+0313", "U+0301">>>>,
    <<"U+1F56", <<"υ", "U+0313", "U+0342">>>>, <<"ᾀ", <<"U+1F00", "ι">>>>,
    <<"ᾁ", <<"U+1F01", "ι">>>>, <<"ᾂ", <<"U+1F02", "ι">>>>,
    <<"ᾃ", <<"U+1F03", "ι">>>>, <<"ᾄ", <<"U+1F04", "ι">>>>,
    <<"ᾅ", <<"U+1F05", "ι">>>>, <<"ᾆ", <<"U+1F06", "ι">>>>,
    <<"ᾇ", <<"U+1F07", "ι">>>>, <<"ᾈ", <<"U+1F00", "ι">>>>,
    <<"ᾉ", <<"U+1F01", "ι">>>>, <<"ᾊ", <<"U+1F02", "ι">>>>,
    <<"ᾋ", <<"U+1F03", "ι">>>>, <<"ᾌ", <<"U+1F04", "ι">>>>,
    <<"ᾍ", <<"U+1F05", "ι">>>>, <<"ᾎ", <<"U+1F06", "ι">>>>,
    <<"ᾏ", <<"U+1F07", "ι">>>>, <<"ᾐ", <<"U+1F20", "ι">>>>,
    <<"ᾑ", <<"U+1F21", "ι">>>>, <<"ᾒ", <<"U+1F22", "ι">>>>,
    <<"ᾓ", <<"U+1F23", "ι">>>>, <<"ᾔ", <<"U+1F24", "ι">>>>,
    <<"ᾕ", <<"U+1F25", "ι">>>>, <<"ᾖ", <<"U+1F26", "ι">>>>,
    <<"ᾗ", <<"U+1F27", "ι">>>>, <<"ᾘ", <<"U+1F20", "ι">>>>,
    <<"ᾙ", <<"U+1F21", "ι">>>>, <<"ᾚ", <<"U+1F22", "ι">>>>,
    <<"ᾛ", <<"U+1F23", "ι">>>>, <<"ᾜ", <<"U+1F24", "ι">>>>,
    <<"ᾝ", <<"U+1F25", "ι">>>>, <<"ᾞ", <<"U+1F26", "ι">>>>,
    <<"ᾟ", <<"U+1F27", "ι">>>>, <<"ᾠ", <<"U+1F60", "ι">>>>,
    <<"ᾡ", <<"U+1F61", "ι">>>>, <<"ᾢ", <<"U+1F62", "ι">>>>,
    <<"ᾣ", <<"U+1F63", "ι">>>>, <<"ᾤ", <<"U+1F64", "ι">>>>,
    <<"ᾥ", <<"U+1F65", "ι">>>>, <<"ᾦ", <<"U+1F66", "ι">>>>,
    <<"ᾧ", <<"U+1F67", "ι">>>>, <<"ᾨ", <<"U+1F60", "ι">>>>,
    <<"ᾩ", <<"U+1F61", "ι">>>>, <<"ᾪ", <<"U+1F62", "ι">>>>,
    <<"ᾫ", <<"U+1F63", "ι">>>>, <<"ᾬ", <<"U+1F64", "ι">>>>,
    <<"ᾭ", <<"U+1F65", "ι">>>>, <<"ᾮ", <<"U+1F66", "ι">>>>,
    <<"ᾯ", <<"U+1F67", "ι">>>>, <<"ᾲ", <<"U+1F70", "ι">>>>,
    <<"ᾳ", <<"α", "ι">>>>, <<"ᾴ", <<"ά", "ι">>>>, <<"ᾶ", <<"α", "U+0342">>>>,
    <<"ᾷ", <<"α", "U+0342", "ι">>>>, <<"ᾼ", <<"α", "ι">>>>,
    <<"ῂ", <<"U+1F74", "ι">>>>, <<"ῃ", <<"η", "ι">>>>, <<"ῄ", <<"ή", "ι">>>>,
    <<"ῆ", <<"η", "U+0342">>>>, <<"ῇ", <<"η", "U+0342", "ι">>>>,
    <<"ῌ", <<"η", "ι">>>>, <<"ῒ", <<"ι", "U+0308", "U+0300">>>>,
    <<"ΐ", <<"ι", "U+0308", "U+0301">>>>, <<"ῖ", <<"ι", "U+0342">>>>,
    <<"ῗ", <<"ι", "U+0308", "U+0342">>>>,
    <<"ῢ", <<"υ", "U+0308", "U+0300">>>>,
    <<"ΰ", <<"υ", "U+0308", "U+0301">>>>, <<"ῤ", <<"ρ", "U+0313">>>>,
    <<"ῦ", <<"υ", "U+0342">>>>, <<"ῧ", <<"υ", "U+0308", "U+0342">>>>,
    <<"ῲ", <<"U+1F7C", "ι">>>>, <<"ῳ", <<"ω", "ι">>>>, <<"ῴ", <<"ώ", "ι">>>>,
    <<"ῶ", <<"ω", "U+0342">>>>, <<"ῷ", <<"ω", "U+0342", "ι">>>>,
    <<"ῼ", <<"ω", "ι">>>>, <<"U+FB00", <<"f", "f">>>>,
    <<"U+FB01", <<"f", "i">>>>, <<"U+FB02", <<"f", "l">>>>,
    <<"U+FB03", <<"f", "f", "i">>>>, <<"U+FB04", <<"f", "f", "l">>>>,
    <<"U+FB05", <<"s", "t">>>>, <<"U+FB06", <<"s", "t">>>>,
    <<"U+FB13", <<"U+0574", "U+0576">>>>,
    <<"U+FB14", <<"U+0574", "U+0565">>>>,
    <<"U+FB15", <<"U+0574", "U+056B">>>>,
    <<"U+FB16", <<"U+057E", "U+0576">>>>,
    <<"U+FB17", <<"U+0574", "U+056D">>>>>>
\* The no-break space, one of the characters of Whitespace.
NoBreakSpace == " "

RECURSIVE CharMap(_, _, _, _)
\* The function from[i] -> <<to[i]>>, lo <= i <= hi
CharMap(from, to, lo, hi) ==
  IF lo > hi THEN <<>>
  ELSE IF lo = hi THEN from[lo] :> <<to[lo]>>
  ELSE LET mid == (lo + hi) \div 2
       IN  CharMap(from, to, lo, mid) @@ CharMap(from, to, mid + 1, hi)

RECURSIVE SpecialMap(_, _, _)
\* The function pairs[i][1] -> pairs[i][2], lo <= i <= hi
SpecialMap(pairs, lo, hi) ==
  IF lo > hi THEN <<>>
  ELSE IF lo = hi THEN pairs[lo][1] :> pairs[lo][2]
  ELSE LET mid == (lo + hi) \div 2
       IN  SpecialMap(pairs, lo, mid) @@ SpecialMap(pairs, mid + 1, hi)

\* str.upper() and str.casefold() of every character they change
UpperOf ==
  CharMap(UpperFrom, UpperTo, 1, Len(UpperFrom))
    @@ SpecialMap(UpperSpecial, 1, Len(UpperSpecial))
UpperChars == DOMAIN UpperOf
FoldOf ==
  CharMap(FoldFrom, FoldTo, 1, Len(FoldFrom))
    @@ SpecialMap(FoldSpecial, 1, Len(FoldSpecial))
FoldChars == DOMAIN FoldOf

\* str.upper() of one character: a text of one character or more
upperChar(c) == IF c \in UpperChars THEN UpperOf[c] ELSE <<c>>

\* str.casefold() of one character: a text of one character or more
casefoldChar(c) == IF c \in FoldChars THEN FoldOf[c] ELSE <<c>>

RECURSIVE upper(_)
\* str.upper()
upper(s) == IF s = <<>> THEN <<>> ELSE upperChar(Head(s)) \o upper(Tail(s))

RECURSIVE casefold(_)
\* str.casefold()
casefold(s) == IF s = <<>> THEN <<>> ELSE casefoldChar(Head(s)) \o casefold(Tail(s))

\* str.strip(): drop leading and trailing whitespace
strip(s) ==
  LET keep == {i \in 1..Len(s) : s[i] \notin Whitespace}
  IN  IF keep = {} THEN <<>>
      ELSE LET lo == CHOOSE i \in keep : \A j \in keep : i <= j
               hi == CHOOSE i \in keep : \A j \in keep : j <= i
           IN  SubSeq(s, lo, hi)

\* str.split(" ")[0]: the text before the first space
splitFirst(s) ==
  LET sp == {i \in 1..Len(s) : s[i] = " "}
  IN  IF sp = {} THEN s
      ELSE SubSeq(s, 1, (CHOOSE i \in sp : \A j \in sp : i <= j) - 1)

\* --------------------------------------------------------- datetime.now()

DigitChars == <<"0","1","2","3","4","5","6","7","8","9">>

RECURSIVE Digits(_, _)
\* n zero-padded to width w, as %Y / %m / %d / %H / %M / %S print it
Digits(n, w) ==
  IF w = 0 THEN <<>> ELSE Append(Digits(n \div 10, w - 1), DigitChars[(n % 10) + 1])

\* The wall clock t seconds after 2025-01-01 00:00:00 (t < 3600).
DateTime(t) == [Y |-> 2025, m |-> 1, d |-> 1, H |-> 0, M |-> t \div 60, S |-> t % 60]

\* One strftime token: a directive is expanded, any other character is copied.
strftimeToken(tok, dt) ==
  CASE tok = "%Y" -> Digits(dt.Y, 4)
    [] tok = "%m" -> Digits(dt.m, 2)
    [] tok = "%d" -> Digits(dt.d, 2)
    [] tok = "%H" -> Digits(dt.H, 2)
    [] tok = "%M" -> Digits(dt.M, 2)
    [] tok = "%S" -> Digits(dt.S, 2)
    [] OTHER -> <<tok>>

RECURSIVE strftime(_, _)
strftime(fmt, dt) ==
  IF fmt = <<>> THEN <<>>
  ELSE strftimeToken(Head(fmt), dt) \o strftime(Tail(fmt), dt)

\* "%Y-m-%d %H:%M:%S": the format of the create branch (a literal "m")
CreateFormat == <<"%Y","-","m","-","%d"," ","%H",":","%M",":","%S">>
\* "%Y-%m-%d %H:%M:%S": the format of the update branch
UpdateFormat == <<"%Y","-","%m","-","%d"," ","%H",":","%M",":","%S">>

\* ---------------------------------------------------------- Python values

PyNone == [t |-> "None"]
Str(s) == [t |-> "str", s |-> s]
PyDict(d) == [t |-> "dict", d |-> d]
PyList(n) == [t |-> "list", n |-> n]

\* Python truthiness: None, "", {} and [] are falsy
Truthy(v) ==
  CASE v.t = "None" -> FALSE
    [] v.t = "str"  -> v.s # <<>>
    [] v.t = "dict" -> DOMAIN v.d # {}
    [] v.t = "list" -> v.n > 0

\* x or y
Or(x, y) == IF Truthy(x) THEN x ELSE y

\* dict.get(key, default)
Get(d, key, default) == IF key \in DOMAIN d THEN d[key] ELSE default

\* The text a cell holds once a value is written to it: None leaves it empty.
CellValue(v) == IF v.t = "str" THEN v.s ELSE <<>>

\* --------------------------------------------------- the worksheet (gspread)

\* The twelve columns of the "Applications" worksheet, in new_row's order.
Columns == <<"A","B","C","D","E","F","G","H","I","J","K","L">>
ColSet == {Columns[i] : i \in 1..Len(Columns)}
ColIndex(c) == CHOOSE i \in 1..Len(Columns) : Columns[i] = c

\* findall as it would be with case_sensitive left at its default, True.
findall_case_sensitive(sheet, query) ==
  SelectSeq([i \in 1..Len(sheet) |-> i], LAMBDA r : sheet[r]["A"] = query)

\* worksheet.findall(query, in_column=1, case_sensitive=False): the row numbers
\* of the cells of column A equal to the query ignoring case, lowest first.
findall(sheet, query) ==
  SelectSeq([i \in 1..Len(sheet) |-> i],
            LAMBDA r : casefold(sheet[r]["A"]) = casefold(query))

\* worksheet.append_row(values): one new row after the last one.
append_row(sheet, values) ==
  Append(sheet, [c \in ColSet |-> CellValue(values[ColIndex(c)])])

\* worksheet.update(f"{col}{row}", value): one cell.
update(sheet, col, row, value) ==
  [sheet EXCEPT ![row][col] = CellValue(value)]

\* worksheet.get_all_records(): every row below the header row.
get_all_records(sheet) == IF sheet = <<>> THEN <<>> ELSE Tail(sheet)

\* ------------------------------------------------ parse_prompt_with_gemini

\* What requests.post / the response can be.
ResponseKinds ==
  { "connection_error",   \* requests.post raises (a RequestException)
    "rate_limit",         \* HTTP 429: raise_for_status raises HTTPError
    "server_error",       \* HTTP 5xx: raise_for_status raises HTTPError
    "body_not_json",      \* response.json() raises requests' JSONDecodeError
    "missing_key",        \* no 'candidates' / 'content' / 'parts' / 'text': KeyError
    "empty_candidates",   \* 'candidates' is []: IndexError
    "wrong_type",         \* e.g. 'candidates' is null, or 'text' is a number: TypeError
    "text_not_json",      \* json.loads raises json.JSONDecodeError
    "ok" }                \* json.loads(response_text) returns response.value

\* The result of one call: the value returned, the st.error messages shown,
\* whether an exception left the function, and the number of HTTP posts made.
parse_prompt_with_gemini(have_key, response) ==
  LET fail(msg, n) == [value |-> PyNone, errors |-> {msg}, raised |-> FALSE, posts |-> n]
  IN  IF ~have_key THEN fail("no_api_key", 0)
      ELSE CASE response.kind \in {"connection_error", "rate_limit",
                                   "server_error", "body_not_json"}
                  -> fail("request_error", 1)
             [] response.kind \in {"missing_key", "empty_candidates"}
                  -> fail("format_error", 1)
             [] response.kind = "text_not_json"
                  -> fail("json_error", 1)
             [] response.kind = "wrong_type"
                  -> [value |-> PyNone, errors |-> {}, raised |-> TRUE, posts |-> 1]
             [] response.kind = "ok"
                  -> [value |-> response.value, errors |-> {}, raised |-> FALSE, posts |-> 1]


\* ------------------------------------------------------------------ main()

sCREATE == <<"C","R","E","A","T","E">>
sUPDATE == <<"U","P","D","A","T","E">>
sApplied == <<"A","p","p","l","i","e","d">>

\* new_row of the create branch
new_row(d, company, t) ==
  LET now == strftime(CreateFormat, DateTime(t))
  IN  << Str(company),
         Get(d, "job_title", Str(<<>>)),
         Get(d, "contact", Str(<<>>)),
         Str(splitFirst(now)),
         Get(d, "status", Str(sApplied)),
         Get(d, "notes", Str(<<>>)),
         Get(d, "link", Str(<<>>)),
         Get(d, "salary", Str(<<>>)),
         Get(d, "location", Str(<<>>)),
         Get(d, "next_step_date", Str(<<>>)),
         Get(d, "recruiter_contact", Str(<<>>)),
         Str(now) >>

\* The updates dict as it would be with 'L' inserted first.
UpdateOrderStampFirst == <<"L","B","C","E","F","G","H","I","J","K">>

\* The columns of the updates dict, in insertion order.
UpdateOrder == <<"B","C","E","F","G","H","I","J","K","L">>

\* updates of the update branch: column letter -> value
updates(d, t) ==
  [ B |-> Get(d, "job_title", PyNone),
    C |-> Get(d, "contact", PyNone),
    E |-> Get(d, "status", PyNone),
    F |-> Get(d, "notes", PyNone),
    G |-> Get(d, "link", PyNone),
    H |-> Get(d, "salary", PyNone),
    I |-> Get(d, "location", PyNone),
    J |-> Get(d, "next_step_date", PyNone),
    K |-> Get(d, "recruiter_contact", PyNone),
    L |-> Str(strftime(UpdateFormat, DateTime(t))) ]

\* The loop as it would be without "if value:": every cell is written.
planned_writes_all(vals) == UpdateOrder

\* The cells the loop over updates.items() writes: those with a truthy value.
planned_writes(vals) == SelectSeq(UpdateOrder, LAMBDA c : Truthy(vals[c]))

\* The create test as it would be without "and not cell_list".
create_branch_any(action, cell_list) == action = sCREATE

\* if action == "CREATE" and not cell_list
create_branch(action, cell_list) == action = sCREATE /\ cell_list = <<>>

\* The update test as it would be without "or cell_list".
update_branch_action_only(action, cell_list) == action = sUPDATE

\* elif action == "UPDATE" or cell_list
update_branch(action, cell_list) == action = sUPDATE \/ cell_list # <<>>

\* The inputs of a page load with everything working and no click: connect
\* (connect_to_gsheet returned a client), open (how client.open /
\* spreadsheet.worksheet ended), update_button, prompt, have_key, response.
Default ==
  [ connect |-> TRUE, open |-> "ok", update_button |-> FALSE, prompt |-> <<>>,
    have_key |-> TRUE, response |-> [kind |-> "ok", value |-> PyNone] ]

\* A script run that has not started.  pc is the worksheet call the run makes
\* next ("findall", "append", "update", "dashboard"), or "done"; op, target and
\* written record the branch taken and the cells written, calls the worksheet
\* calls made, raised those of them that raised, posts the HTTP calls to the
\* extraction service.
Idle ==
  [ pc |-> "idle", in |-> Default, t |-> 0, company |-> <<>>, action |-> <<>>,
    target |-> 0, written |-> <<>>, note |-> "none", errors |-> {},
    dashboard |-> "none", shown |-> 0, uncaught |-> FALSE, op |-> "none",
    posts |-> 0, calls |-> 0, raised |-> 0 ]

\* main() from its first line to its first worksheet call, on the inputs in.
script_start(in) ==
  LET l0 == [Idle EXCEPT !.in = in, !.pc = "done"]
  IN  IF ~in.connect THEN [l0 EXCEPT !.errors = {"connect_error"}]
      ELSE IF in.open # "ok"
      THEN [l0 EXCEPT !.note = CASE in.open = "SpreadsheetNotFound" -> "spreadsheet_not_found"
                                 [] in.open = "WorksheetNotFound" -> "worksheet_not_found"
                                 [] OTHER -> "open_error"]
      ELSE IF ~in.update_button THEN [l0 EXCEPT !.pc = "dashboard"]
      ELSE IF in.prompt = <<>>
      THEN [l0 EXCEPT !.note = "enter_update", !.pc = "dashboard"]
      ELSE
      LET g == parse_prompt_with_gemini(in.have_key, in.response)
          l1 == [l0 EXCEPT !.errors = g.errors, !.posts = g.posts]
          parsed_data == g.value
      IN  IF g.raised THEN [l1 EXCEPT !.uncaught = TRUE]
          ELSE IF ~Truthy(parsed_data) THEN [l1 EXCEPT !.pc = "dashboard"]
          ELSE IF parsed_data.t # "dict" THEN [l1 EXCEPT !.uncaught = TRUE]
          ELSE
          LET d == parsed_data.d
              c0 == Or(Get(d, "company", Str(<<>>)), Get(d, "company_name", Str(<<>>)))
              a0 == Get(d, "action", Str(<<>>))
          IN  IF c0.t # "str" \/ a0.t # "str" THEN [l1 EXCEPT !.uncaught = TRUE]
              ELSE
              LET company == strip(c0.s)
                  action == upper(a0.s)
              IN  IF company = <<>> THEN [l1 EXCEPT !.note = "no_company"]
                  ELSE [l1 EXCEPT !.company = company, !.action = action,
                                  !.pc = "findall"]

\* The try block "2. Perform the action" once findall has returned cell_list,
\* up to its next worksheet call; t is what datetime.now() returns.
after_findall(l, cell_list, t) ==
  LET l1 == [l EXCEPT !.calls = @ + 1]
  IN  IF create_branch(l.action, cell_list)
      THEN [l1 EXCEPT !.op = "append", !.note = "adding", !.t = t, !.pc = "append"]
      ELSE IF update_branch(l.action, cell_list)
      THEN IF cell_list = <<>>
           THEN [l1 EXCEPT !.note = "not_found", !.pc = "done"]
           ELSE [l1 EXCEPT !.op = "update", !.note = "updating", !.t = t,
                           !.target = cell_list[1], !.pc = "update"]
      ELSE [l1 EXCEPT !.note = "undetermined", !.pc = "dashboard"]

\* except Exception of the try block: a worksheet call raised.
sheet_error(l) ==
  [l EXCEPT !.note = "sheet_error", !.calls = @ + 1, !.raised = @ + 1,
            !.pc = "dashboard"]

\* The create branch once append_row has returned.
after_append_row(l) ==
  [l EXCEPT !.note = "added", !.calls = @ + 1, !.pc = "dashboard"]

\* The column the loop over updates.items() writes next.
next_write(l) ==
  planned_writes(updates(l.in.response.value.d, l.t))[Len(l.written) + 1]

\* The update loop once worksheet.update has returned for column c: on to the
\* next cell, or out of the loop.
after_update(l, c) ==
  LET plan == planned_writes(updates(l.in.response.value.d, l.t))
      written == Append(l.written, c)
  IN  IF Len(written) < Len(plan)
      THEN [l EXCEPT !.written = written, !.calls = @ + 1]
      ELSE [l EXCEPT !.written = written, !.calls = @ + 1, !.note = "updated",
                     !.pc = "dashboard"]

\* The "Dashboard" section once get_all_records has returned data.
render_dashboard(l, data) ==
  [l EXCEPT !.shown = Len(data), !.calls = @ + 1,
            !.dashboard = IF data # <<>> THEN "table" ELSE "empty",
            !.pc = "done"]

\* except Exception of the "Dashboard" section.
fetch_error(l) ==
  [l EXCEPT !.errors = @ \cup {"fetch_error"}, !.dashboard = "error",
            !.calls = @ + 1, !.raised = @ + 1, !.pc = "done"]

\* ------------------------------------------------------------- the inputs

\* Company names and field values the extraction service returns.
tAsz == <<"A","ß">>
tASS == <<"A","S","S">>
taszPadded == <<"\f"," ","a","ß",NoBreakSpace>>
tCe == <<"C","é">>
tCE == <<"C","É">>
tcompany == <<"c","o","m","p","a","n","y">>
sRejected == <<"R","e","j","e","c","t","e","d">>
sWithdrew == <<"W","i","t","h","d","r","e","w">>
sGhosted == <<"G","h","o","s","t","e","d">>

\* The status vocabulary of the system prompt.
StatusVocabulary ==
  { sApplied,
    <<"A","s","s","e","s","s","m","e","n","t">>,
    <<"I","n","t","e","r","v","i","e","w"," ","S","c","h","e","d","u","l","e","d">>,
    <<"O","f","f","e","r"," ","R","e","c","e","i","v","e","d">>,
    sRejected,
    <<"F","o","l","l","o","w","e","d"," ","U","p">>,
    sWithdrew }

\* The nine field keys of the JSON answer, with the column each one feeds.
FieldKeys == <<"job_title", "contact", "status", "notes", "link", "salary",
               "location", "next_step_date", "recruiter_contact">>
FieldKeySet == {FieldKeys[i] : i \in 1..Len(FieldKeys)}
FieldColumn ==
  [ job_title |-> "B", contact |-> "C", status |-> "E", notes |-> "F", link |-> "G",
    salary |-> "H", location |-> "I", next_step_date |-> "J", recruiter_contact |-> "K" ]

\* A key the answer does not hold.
Missing == [t |-> "missing"]
Entry(key, v) == IF v = Missing THEN <<>> ELSE (key :> v)

\* Answers about the nine fields.
FieldsStatusOnly ==
  [k \in FieldKeySet |-> IF k = "status" THEN Str(sRejected) ELSE Str(<<>>)]
FieldsAll ==
  [ job_title |-> Str(<<"j">>), contact |-> Str(<<"c">>), status |-> Str(sWithdrew),
    notes |-> Str(<<"n">>), link |-> Str(<<"l">>), salary |-> Str(<<"s">>),
    location |-> Str(<<"p">>), next_step_date |-> Str(<<"d">>),
    recruiter_contact |-> Str(<<"r">>) ]
FieldsEmpty == [k \in FieldKeySet |-> Str(<<>>)]
FieldsMissing == [k \in FieldKeySet |-> Missing]
FieldsUnknownStatus ==
  [k \in FieldKeySet |-> IF k = "status" THEN Str(sGhosted)
                         ELSE IF k = "notes" THEN Str(<<"n">>) ELSE Str(<<>>)]
FieldsNull ==
  [k \in FieldKeySet |-> IF k = "job_title" THEN Str(<<"j">>)
                         ELSE IF k = "link" THEN Missing ELSE PyNone]

FieldAnswers == {FieldsAll, FieldsEmpty, FieldsMissing, FieldsUnknownStatus, FieldsNull}

sCreateLower == <<"c","r","e","a","t","e">>

ActionAnswers == {Str(sCreateLower), Str(sUPDATE), Str(<<"N","O","T","E">>), Missing}

\* <<company, company_name>>
PlainCompanies == {<<Str(tAsz), Missing>>, <<Str(tCe), Missing>>}

RECURSIVE FieldEntries(_, _)
FieldEntries(f, keys) ==
  IF keys = <<>> THEN <<>>
  ELSE Entry(Head(keys), f[Head(keys)]) @@ FieldEntries(f, Tail(keys))

Answer(a, c, f) ==
  PyDict(Entry("action", a) @@ Entry("company", c[1]) @@ Entry("company_name", c[2])
         @@ FieldEntries(f, FieldKeys))

\* What json.loads(response_text) returns: the JSON objects above, and null,
\* {}, [] and a non-empty array.
Extractions ==
  { Answer(a, c, FieldsStatusOnly) : a \in ActionAnswers, c \in PlainCompanies }
  \cup
  { Answer(a, <<Str(taszPadded), Missing>>, FieldsStatusOnly) :
      a \in {Str(sCreateLower), Str(sUPDATE)} }
  \cup
  { Answer(Str(sCreateLower), <<Str(tcompany), Missing>>, FieldsStatusOnly),
    Answer(Str(sCreateLower), <<Missing, Str(tCE)>>, FieldsStatusOnly),
    Answer(Str(sCreateLower), <<Str(<<>>), Missing>>, FieldsStatusOnly),
    Answer(Str(sUPDATE), <<PyNone, PyNone>>, FieldsStatusOnly),
    Answer(PyNone, <<Str(tAsz), Missing>>, FieldsStatusOnly) }
  \cup
  { Answer(Str(sCreateLower), <<Str(tCe), Missing>>, f) : f \in FieldAnswers }
  \cup
  { Answer(Str(sUPDATE), <<Str(tAsz), Missing>>, f) : f \in FieldAnswers }
  \cup
  { PyNone, PyDict(<<>>), PyList(0), PyList(1) }

OpenOutcomes == {"ok", "SpreadsheetNotFound", "WorksheetNotFound", "Exception"}

\* ------------------------------------------------------- the initial sheets

tOld == <<"o">>
OldDate == <<"2","0","2","4","-","1","2","-","3","1">>
OldStamp == OldDate \o <<" ","0","9",":","0","0",":","0","0">>

HeaderRow ==
  [ A |-> <<"C","o","m","p","a","n","y">>, B |-> <<"J","o","b">>,
    C |-> <<"V","i","a">>, D |-> <<"D","a","t","e">>,
    E |-> <<"S","t","a","t","u","s">>, F |-> <<"N","o","t","e","s">>,
    G |-> <<"L","i","n","k">>, H |-> <<"P","a","y">>,
    I |-> <<"P","l","a","c","e">>, J |-> <<"N","e","x","t">>,
    K |-> <<"W","h","o">>, L |-> <<"S","e","e","n">> ]

OldRow(company) ==
  [c \in ColSet |-> CASE c = "A" -> company
                      [] c = "D" -> OldDate
                      [] c = "E" -> sApplied
                      [] c = "L" -> OldStamp
                      [] OTHER -> tOld]

InitialSheets ==
  { <<>>,
    <<HeaderRow>>,
    <<HeaderRow, OldRow(tCe), OldRow(tAsz)>>,
    <<HeaderRow, OldRow(tCe), OldRow(tASS), OldRow(tAsz)>> }

\* No two rows have the same company name ignoring case.
NoDuplicateCompany(s) ==
  \A i, j \in 1..Len(s) : casefold(s[i]["A"]) = casefold(s[j]["A"]) => i = j

\* ------------------------------------------------------- the state machine

VARIABLES
  sheet,    \* the rows of the worksheet, header row first
  clock,    \* the number of script runs started; the wall clock in seconds
  run,      \* run[s]: the script run of session s, under way or its last one
  overlap   \* whether a run may start while another one is under way

vars == <<sheet, clock, run, overlap>>

\* The browser sessions: as many as there are requests.
Sessions == 1..MaxRequests

\* Session s has no script run under way.
Free(s) == run[s].pc \in {"idle", "done"}

Init ==
  /\ sheet \in InitialSheets
  /\ clock = 0
  /\ run = [s \in Sessions |-> Idle]
  /\ overlap = TRUE

\* A single session on a sheet without duplicates: one run at a time.
InitSequential ==
  /\ sheet \in InitialSheets
  /\ NoDuplicateCompany(sheet)
  /\ clock = 0
  /\ run = [s \in Sessions |-> Idle]
  /\ overlap = FALSE

\* A script run starts on the inputs in, in the first session that has none
\* under way; what that session's page showed is replaced.
Start(in) ==
  /\ clock < MaxRequests
  /\ overlap \/ \A s \in Sessions : Free(s)
  /\ \E s \in Sessions :
       /\ Free(s) /\ \A o \in 1..(s - 1) : ~Free(o)
       /\ run' = [run EXCEPT ![s] = script_start(in)]
  /\ clock' = clock + 1
  /\ UNCHANGED <<sheet, overlap>>

Click == [Default EXCEPT !.update_button = TRUE, !.prompt = <<"x">>]

\* connect_to_gsheet() returns None.
ConnectFails == Start([Default EXCEPT !.connect = FALSE])

\* client.open / spreadsheet.worksheet raises.
OpenFails == \E o \in OpenOutcomes \ {"ok"} : Start([Default EXCEPT !.open = o])

\* The page is loaded or re-run without a click on Update.
PageLoad == Start(Default)

\* Update is clicked with an empty text area.
ClickEmptyPrompt == Start([Default EXCEPT !.update_button = TRUE])

\* Update is clicked and the extraction call fails.
ClickExtractionFails ==
  \E hk \in BOOLEAN, k \in ResponseKinds \ {"ok"} :
    /\ hk \/ k = "connection_error"
    /\ Start([Click EXCEPT !.have_key = hk,
                           !.response = [kind |-> k, value |-> PyNone]])

\* Update is clicked and the extraction call returns v.
ClickExtracted ==
  \E v \in Extractions :
    Start([Click EXCEPT !.response = [kind |-> "ok", value |-> v]])

\* worksheet.findall(...) of a run returns or raises.
FindAll ==
  \E s \in Sessions, ok \in BOOLEAN :
    /\ run[s].pc = "findall"
    /\ run' = [run EXCEPT ![s] =
                 IF ok THEN after_findall(@, findall(sheet, @.company), clock)
                 ELSE sheet_error(@)]
    /\ UNCHANGED <<sheet, clock, overlap>>

\* worksheet.append_row(new_row) of a run returns or raises.
AppendRow ==
  \E s \in Sessions, ok \in BOOLEAN :
    /\ run[s].pc = "append"
    /\ IF ok
       THEN /\ sheet' = append_row(sheet, new_row(run[s].in.response.value.d,
                                                  run[s].company, run[s].t))
            /\ run' = [run EXCEPT ![s] = after_append_row(@)]
       ELSE /\ sheet' = sheet
            /\ run' = [run EXCEPT ![s] = sheet_error(@)]
    /\ UNCHANGED <<clock, overlap>>

\* One worksheet.update(cell, value) of the update loop of a run returns or
\* raises.
UpdateCell ==
  \E s \in Sessions, ok \in BOOLEAN :
    /\ run[s].pc = "update"
    /\ IF ok
       THEN \E c \in {next_write(run[s])} :
              /\ sheet' = update(sheet, c, run[s].target,
                                 updates(run[s].in.response.value.d, run[s].t)[c])
              /\ run' = [run EXCEPT ![s] = after_update(@, c)]
       ELSE /\ sheet' = sheet
            /\ run' = [run EXCEPT ![s] = sheet_error(@)]
    /\ UNCHANGED <<clock, overlap>>

\* worksheet.get_all_records() of a run returns or raises.
ReadDashboard ==
  \E s \in Sessions, ok \in BOOLEAN :
    /\ run[s].pc = "dashboard"
    /\ run' = [run EXCEPT ![s] =
                 IF ok THEN render_dashboard(@, get_all_records(sheet))
                 ELSE fetch_error(@)]
    /\ UNCHANGED <<sheet, clock, overlap>>

Next ==
  \/ ConnectFails
  \/ OpenFails
  \/ PageLoad
  \/ ClickEmptyPrompt
  \/ ClickExtractionFails
  \/ ClickExtracted
  \/ FindAll
  \/ AppendRow
  \/ UpdateCell
  \/ ReadDashboard

\* Any number of sessions: their runs overlap.
Spec == Init /\ [][Next]_vars

\* One session, no duplicate company to begin with: the runs follow each other.
SpecSequential == InitSequential /\ [][Next]_vars

\* ------------------------------------------------------------ the claims

\* The run of session s takes the step.
Steps(s) == run'[s] # run[s]

\* The run l was a click on Update with a non-empty text, the sheet open.
Clicked(l) ==
  /\ l.pc # "idle"
  /\ l.in.connect /\ l.in.open = "ok"
  /\ l.in.update_button /\ l.in.prompt # <<>>

\* The value the extraction returned to the run l for a key.
Given(l, key) == Get(l.in.response.value.d, key, PyNone)

\* The rows of sh whose company cell equals the company ignoring case.
MatchRows(sh, company) ==
  {i \in 1..Len(sh) : casefold(sh[i]["A"]) = casefold(company)}

\* The timestamp an update made by the run l writes.
UpdateStamp(l) == strftime(UpdateFormat, DateTime(l.t))

Cells(cols) == {cols[i] : i \in 1..Len(cols)}

\* The columns an update of the run l's answer writes, in column order.
PlanCols(l) ==
  SelectSeq(Columns,
            LAMBDA c : \/ c = "L"
                       \/ \E k \in FieldKeySet : FieldColumn[k] = c /\ Truthy(Given(l, k)))

\* The text an update of the run l writes to column c.
PlanValue(l, c) ==
  IF c = "L" THEN UpdateStamp(l)
  ELSE Given(l, CHOOSE k \in FieldKeySet : FieldColumn[k] = c).s

\* C1: when the findall of a request with a non-empty company returns, the
\* request goes on to append_row iff its action is CREATE and no row of the
\* sheet matches the company, to the update of a row iff some row matches
\* (whatever the action), and otherwise to no write at all; an append_row that
\* returns has added exactly one row, for the company; no other step of any
\* request adds a row, and only appends and updates change the sheet.
C1_CreateOrUpdateDecision ==
  [][ /\ \A s \in Sessions :
           /\ (run[s].pc = "findall" /\ Steps(s) /\ run'[s].raised = run[s].raised) =>
                \E m \in {MatchRows(sheet, run[s].company)} :
                    /\ (run'[s].pc = "append") <=> (run[s].action = sCREATE /\ m = {})
                    /\ (run'[s].pc = "update") <=> (m # {})
                    /\ (run'[s].pc \in {"dashboard", "done"})
                         <=> (m = {} /\ run[s].action # sCREATE)
                    /\ (run'[s].pc \in {"dashboard", "done"}) =>
                         /\ run'[s].op = "none"
                         /\ run'[s].note \in {"not_found", "undetermined"}
           /\ (run[s].pc = "append" /\ Steps(s)) =>
                IF run'[s].note = "added"
                THEN /\ Len(sheet') = Len(sheet) + 1
                     /\ SubSeq(sheet', 1, Len(sheet)) = sheet
                     /\ sheet'[Len(sheet')]["A"] = run[s].company
                ELSE sheet' = sheet /\ run'[s].note = "sheet_error"
           /\ (run[s].pc = "update" /\ Steps(s)) => Len(sheet') = Len(sheet)
      /\ (sheet' # sheet) =>
           \E s \in Sessions : run[s].pc \in {"append", "update"} /\ Steps(s)
    ]_vars

\* A CREATE for a company that has a row already, handled as an update.
C1_Witness ==
  \E s \in Sessions :
    /\ run[s].action = sCREATE
    /\ run[s].op = "update" /\ run[s].note = "updated"
    /\ MatchRows(sheet, run[s].company) # {}

\* C2: every write of an update is made to the lowest-numbered row whose
\* company matches the extracted company ignoring case, and leaves every other
\* row of the sheet unchanged.
C2_FirstMatchWins ==
  [][ \A s \in Sessions :
        (run[s].pc = "update" /\ Steps(s)) =>
          \E m \in {MatchRows(sheet, run[s].company)} :
              /\ run[s].target \in m
              /\ \A i \in m : run[s].target <= i
              /\ Len(sheet') = Len(sheet)
              /\ \A i \in 1..Len(sheet) : i # run[s].target => sheet'[i] = sheet[i]
    ]_vars

\* An update of a company with two matching rows, made to the first, whose
\* company cell is spelt another way.
C2_Witness ==
  \E s \in Sessions :
    /\ run[s].op = "update" /\ run[s].note = "updated"
    /\ Cardinality(MatchRows(sheet, run[s].company)) >= 2
    /\ sheet[run[s].target]["A"] # run[s].company
    /\ sheet[run[s].target]["L"] = UpdateStamp(run[s])

\* C3: a rate-limit answer of the extraction service is retried, so the error
\* is reported to the user only after more than one attempt.
C3_RateLimitIsRetried ==
  \A s \in Sessions :
    (Clicked(run[s]) /\ run[s].in.have_key /\ run[s].in.response.kind = "rate_limit"
       /\ "request_error" \in run[s].errors)
    => run[s].posts > 1

\* The run l met one of the failures C4 lists.
ExtractionFailed(l) ==
  Clicked(l) /\ (~l.in.have_key \/ l.in.response.kind # "ok")
FailureMet(l) ==
  /\ l.pc # "idle" /\ l.in.connect
  /\ l.in.open # "ok" \/ ExtractionFailed(l) \/ l.raised > 0

\* C4: a failure of the extraction call, of opening the sheet, of a sheet
\* find/append/update or of the dashboard read ends in a message shown to the
\* user and never in an uncaught exception, and a failed extraction writes
\* nothing to the sheet.
C4_FailuresEndInMessage ==
  \A s \in Sessions :
    (run[s].pc = "done" /\ FailureMet(run[s])) =>
      /\ ~run[s].uncaught
      /\ \/ run[s].errors # {}
         \/ run[s].note \in {"spreadsheet_not_found", "worksheet_not_found",
                             "open_error", "sheet_error"}
      /\ ExtractionFailed(run[s]) => run[s].op = "none"

\* C5: every request handled with the sheet opened, and ended without an
\* uncaught exception, ends by rendering the dashboard.
C5_DashboardAlwaysRendered ==
  \A s \in Sessions :
    (run[s].pc = "done" /\ run[s].in.connect /\ run[s].in.open = "ok"
       /\ ~run[s].uncaught)
    => run[s].dashboard # "none"

\* C6: every status cell the program writes, by a create or by an update, is a
\* member of the status vocabulary.
C6_StatusInVocabulary ==
  [][ \A i \in 1..Len(sheet') :
        (i > Len(sheet) \/ sheet'[i]["E"] # sheet[i]["E"])
          => sheet'[i]["E"] \in StatusVocabulary
    ]_vars

\* C7: a write of an update overwrites a field's cell of the target row only
\* with the non-empty extracted value and leaves the cell unchanged when the
\* value is empty or missing; no step changes columns A and D of a row; an
\* update that ends with the success message has written every non-empty
\* value and has set Last Updated (L).
C7_UpdateChangesOnlyWhatIsNew ==
  [][ /\ \A i \in 1..Len(sheet) :
           sheet'[i]["A"] = sheet[i]["A"] /\ sheet'[i]["D"] = sheet[i]["D"]
      /\ \A s \in Sessions :
           (run[s].pc = "update" /\ Steps(s)) =>
             /\ \A k \in FieldKeySet :
                  IF Truthy(Given(run[s], k))
                  THEN sheet'[run[s].target][FieldColumn[k]]
                         \in {Given(run[s], k).s, sheet[run[s].target][FieldColumn[k]]}
                  ELSE sheet'[run[s].target][FieldColumn[k]]
                         = sheet[run[s].target][FieldColumn[k]]
             /\ (run'[s].note = "updated") =>
                  /\ sheet'[run[s].target]["L"] = UpdateStamp(run[s])
                  /\ Cells(run'[s].written) =
                       {"L"} \cup {FieldColumn[k] : k \in {x \in FieldKeySet :
                                                             Truthy(Given(run[s], x))}}
    ]_vars

\* A successful update with a non-empty value written over another one and an
\* empty or missing value that left its cell alone.
C7_Witness ==
  \E s \in Sessions :
    /\ run[s].op = "update" /\ run[s].note = "updated"
    /\ \E k \in FieldKeySet :
         /\ Truthy(Given(run[s], k))
         /\ FieldColumn[k] \in Cells(run[s].written)
         /\ sheet[run[s].target][FieldColumn[k]] = Given(run[s], k).s
         /\ Given(run[s], k).s \notin {tOld, sApplied}
    /\ \E k \in FieldKeySet :
         /\ ~Truthy(Given(run[s], k))
         /\ sheet[run[s].target][FieldColumn[k]] \in {tOld, sApplied}
    /\ sheet[run[s].target]["L"] = UpdateStamp(run[s])

\* C8: with the requests handled one after the other on a sheet that had no
\* duplicate, no two rows have the same company name ignoring case, and the
\* row count grows by one on a create and is unchanged by every other step.
C8_NoDuplicateCompanies ==
  [][ /\ NoDuplicateCompany(sheet')
      /\ Len(sheet') = Len(sheet) +
           (IF \E s \in Sessions : run[s].pc = "append" /\ run'[s].note = "added"
            THEN 1 ELSE 0)
    ]_vars

\* A CREATE for a company whose row an earlier create of the program appended
\* (its Date Applied is the program's), which appended nothing.
C8_Witness ==
  \E s \in Sessions :
    /\ run[s].action = sCREATE
    /\ run[s].op = "update" /\ run[s].note = "updated"
    /\ run[s].target = Len(sheet)
    /\ sheet[run[s].target]["D"] = splitFirst(strftime(CreateFormat, DateTime(1)))
    /\ sheet[run[s].target]["A"] # run[s].company
    /\ NoDuplicateCompany(sheet)

\* What C9 says of the cells an update has written so far: they are the first
\* of its plan, L is among them only with all the others, and the update has
\* ended with the success message iff all are written, with the error message
\* if it ended before.
WrittenInOrder(l) ==
  \E plan \in {PlanCols(l)} :
    /\ Len(l.written) <= Len(plan)
    /\ l.written = SubSeq(plan, 1, Len(l.written))
    /\ ("L" \in Cells(l.written)) => l.written = plan
    /\ (l.note = "updated") <=> (l.written = plan)
    /\ (l.written # plan /\ l.pc # "update") => l.note = "sheet_error"

\* C9: the cells of an update are written one at a time in the order B, C,
\* E..K and L last; when a write fails the rest is skipped and the error
\* message shown: L is written only once every non-empty field has been, and an
\* update that stopped early has neither written L nor shown the success
\* message.
C9_LastUpdatedWrittenLast ==
  [][ \A s \in Sessions :
        (run[s].pc = "update" /\ Steps(s)) =>
          /\ WrittenInOrder(run[s])
          /\ WrittenInOrder(run'[s])
          /\ IF run'[s].written # run[s].written
             THEN \E c \in {PlanCols(run[s])[Len(run[s].written) + 1]} :
                    /\ run'[s].written = Append(run[s].written, c)
                    /\ sheet' = [sheet EXCEPT ![run[s].target][c] = PlanValue(run[s], c)]
             ELSE /\ sheet' = sheet
                  /\ run'[s].note = "sheet_error"
                  /\ run'[s].pc = "dashboard"
    ]_vars

\* An update whose write of a middle cell failed: the cells before it are
\* written, the cells after it and L are not, and the run is over.
C9_Witness ==
  \E s \in Sessions :
    /\ run[s].op = "update" /\ run[s].note = "sheet_error" /\ run[s].pc = "done"
    /\ Len(run[s].written) >= 2
    /\ Len(run[s].written) + 2 <= Len(PlanCols(run[s]))
    /\ sheet[run[s].target]["B"] = Given(run[s], "job_title").s
    /\ sheet[run[s].target]["K"] = tOld
    /\ sheet[run[s].target]["L"] = OldStamp

====
